---------------------------- MODULE Spec2Model ----------------------------
(***************************************************************************)
(* Group-path based RBAC layer on top of an identity provider (Keycloak).  *)
(*                                                                         *)
(* Strings are sequences of one-character strings, so that strip(),        *)
(* lower(), split("/") and f-string concatenation are computed the way     *)
(* the Python code computes them.  The identity provider is a set of       *)
(* groups (id, name, parent), a set of users and a set of membership       *)
(* edges; every admin-client call of a service is one atomic step.         *)
(***************************************************************************)
EXTENDS Naturals, Integers, Sequences, FiniteSets, TLC

VARIABLES
    kcGroups,    \* identity provider: set of [id, name, parent] (parent 0 = top level)
    kcUsers,     \* identity provider: set of [id, username]
    kcMembers,   \* identity provider: set of <<user id, group id>>
    kcNextId,    \* identity provider: the id the next created group gets (ids are never reused)
    req,         \* per execution context: the request being served and its locals
    nReq,        \* number of requests started so far
    nFail,       \* number of provider calls that failed with a KeycloakError so far
    hComplete,   \* history: ids of org/team groups whose creating call created both role children
    hRoleDeleted,\* history: ids of groups a role child of which was deleted by a delete_group call
    inGroups,    \* pure-function check: the caller's groups claim
    inOrg,       \* pure-function check: org_name path parameter
    inTeam,      \* pure-function check: team_name path parameter
    inName,      \* pure-function check: raw name handed to the validator
    out,         \* pure-function check: the function applied last and its result
    cookies      \* a user agent's cookies: access_token and refresh_token

vars == <<kcGroups, kcUsers, kcMembers, kcNextId, req, nReq, nFail,
          hComplete, hRoleDeleted, inGroups, inOrg, inTeam, inName, out, cookies>>
kcVars == <<kcGroups, kcUsers, kcMembers, kcNextId>>
histVars == <<hComplete, hRoleDeleted>>
sysVars == <<kcGroups, kcUsers, kcMembers, kcNextId, req, nReq, nFail,
             hComplete, hRoleDeleted>>
pureVars == <<inGroups, inOrg, inTeam, inName, out>>

\* request.cookies.get("access_token") when the cookie is not there, and the
\* cookies of a user agent that has none.
NoToken == [ present |-> FALSE ]
NoCookies == [ access_token |-> NoToken, refresh_token |-> FALSE ]

---------------------------------------------------------------------------
(* Strings *)

\* Python's None, typed like a string so that it can be compared with one.
None == <<"None">>

\* The characters str.strip() removes from both ends.
Whitespace == {"\t","\n","","\f","\r","","","",""," ",""," "," ","U+2000","U+2001",
    "U+2002","U+2003","U+2004","U+2005","U+2006","U+2007","U+2008","U+2009","U+200A","U+2028",
    "U+2029","U+202F","U+205F","U+3000"}

\* A character is a one-character string.  A string literal holds the
\* characters U+0001..U+00FF but the backtick, and every later character
\* whose UTF-16 units all end in a byte of 80..FF.  A character a literal
\* cannot hold is written by its code point: "U+0000", "U+0253", "U+1F600".
\* The tables below cover every code point.

\* The letters str.lower() changes, and what it makes of each.
UpperChars == <<"A","B","C","D","E","F","G","H","I","J","K","L","M","N","O","P","Q","R","S","T",
    "U","V","W","X","Y","Z","À","Á","Â","Ã","Ä","Å","Æ","Ç","È","É","Ê","Ë","Ì","Í","Î","Ï","Ð",
    "Ñ","Ò","Ó","Ô","Õ","Ö","Ø","Ù","Ú","Û","Ü","Ý","Þ","U+0100","U+0102","U+0104","U+0106",
    "U+0108","U+010A","U+010C","U+010E","U+0110","U+0112","U+0114","U+0116","U+0118","U+011A",
    "U+011C","U+011E","U+0120","U+0122","U+0124","U+0126","U+0128","U+012A","U+012C","U+012E",
    "U+0132","U+0134","U+0136","U+0139","U+013B","U+013D","U+013F","U+0141","U+0143","U+0145",
    "U+0147","U+014A","U+014C","U+014E","U+0150","U+0152","U+0154","U+0156","U+0158","U+015A",
    "U+015C","U+015E","U+0160","U+0162","U+0164","U+0166","U+0168","U+016A","U+016C","U+016E",
    "U+0170","U+0172","U+0174","U+0176","U+0178","U+0179","U+017B","U+017D","Ɓ","Ƃ","Ƅ","Ɔ","Ƈ",
    "Ɖ","Ɗ","Ƌ","Ǝ","Ə","Ɛ","Ƒ","Ɠ","Ɣ","Ɩ","Ɨ","Ƙ","Ɯ","Ɲ","Ɵ","Ơ","Ƣ","Ƥ","Ʀ","Ƨ","Ʃ","Ƭ","Ʈ",
    "Ư","Ʊ","Ʋ","Ƴ","Ƶ","Ʒ","Ƹ","Ƽ","Ǆ","ǅ","Ǉ","ǈ","Ǌ","ǋ","Ǎ","Ǐ","Ǒ","Ǔ","Ǖ","Ǘ","Ǚ","Ǜ","Ǟ",
    "Ǡ","Ǣ","Ǥ","Ǧ","Ǩ","Ǫ","Ǭ","Ǯ","Ǳ","ǲ","Ǵ","Ƕ","Ƿ","Ǹ","Ǻ","Ǽ","Ǿ","U+0200","U+0202",
    "U+0204","U+0206","U+0208","U+020A","U+020C","U+020E","U+0210","U+0212","U+0214","U+0216",
    "U+0218","U+021A","U+021C","U+021E","U+0220","U+0222","U+0224","U+0226","U+0228","U+022A",
    "U+022C","U+022E","U+0230","U+0232","U+023A","U+023B","U+023D","U+023E","U+0241","U+0243",
    "U+0244","U+0245","U+0246","U+0248","U+024A","U+024C","U+024E","U+0370","U+0372","U+0376",
    "U+037F","Ά","Έ","Ή","Ί","Ό","Ύ","Ώ","Α","Β","Γ","Δ","Ε","Ζ","Η","Θ","Ι","Κ","Λ","Μ","Ν",
    "Ξ","Ο","Π","Ρ","Σ","Τ","Υ","Φ","Χ","Ψ","Ω","Ϊ","Ϋ","Ϗ","Ϙ","Ϛ","Ϝ","Ϟ","Ϡ","Ϣ","Ϥ","Ϧ","Ϩ",
    "Ϫ","Ϭ","Ϯ","ϴ","Ϸ","Ϲ","Ϻ","Ͻ","Ͼ","Ͽ","U+0400","U+0401","U+0402","U+0403","U+0404",
    "U+0405","U+0406","U+0407","U+0408","U+0409","U+040A","U+040B","U+040C","U+040D","U+040E",
    "U+040F","U+0410","U+0411","U+0412","U+0413","U+0414","U+0415","U+0416","U+0417","U+0418",
    "U+0419","U+041A","U+041B","U+041C","U+041D","U+041E","U+041F","U+0420","U+0421","U+0422",
    "U+0423","U+0424","U+0425","U+0426","U+0427","U+0428","U+0429","U+042A","U+042B","U+042C",
    "U+042D","U+042E","U+042F","U+0460","U+0462","U+0464","U+0466","U+0468","U+046A","U+046C",
    "U+046E","U+0470","U+0472","U+0474","U+0476","U+0478","U+047A","U+047C","U+047E","Ҁ","Ҋ",
    "Ҍ","Ҏ","Ґ","Ғ","Ҕ","Җ","Ҙ","Қ","Ҝ","Ҟ","Ҡ","Ң","Ҥ","Ҧ","Ҩ","Ҫ","Ҭ","Ү","Ұ","Ҳ","Ҵ","Ҷ","Ҹ",
    "Һ","Ҽ","Ҿ","Ӏ","Ӂ","Ӄ","Ӆ","Ӈ","Ӊ","Ӌ","Ӎ","Ӑ","Ӓ","Ӕ","Ӗ","Ә","Ӛ","Ӝ","Ӟ","Ӡ","Ӣ","Ӥ","Ӧ",
    "Ө","Ӫ","Ӭ","Ӯ","Ӱ","Ӳ","Ӵ","Ӷ","Ӹ","Ӻ","Ӽ","Ӿ","U+0500","U+0502","U+0504","U+0506",
    "U+0508","U+050A","U+050C","U+050E","U+0510","U+0512","U+0514","U+0516","U+0518","U+051A",
    "U+051C","U+051E","U+0520","U+0522","U+0524","U+0526","U+0528","U+052A","U+052C","U+052E",
    "U+0531","U+0532","U+0533","U+0534","U+0535","U+0536","U+0537","U+0538","U+0539","U+053A",
    "U+053B","U+053C","U+053D","U+053E","U+053F","U+0540","U+0541","U+0542","U+0543","U+0544",
    "U+0545","U+0546","U+0547","U+0548","U+0549","U+054A","U+054B","U+054C","U+054D","U+054E",
    "U+054F","U+0550","U+0551","U+0552","U+0553","U+0554","U+0555","U+0556","Ⴀ","Ⴁ","Ⴂ","Ⴃ","Ⴄ",
    "Ⴅ","Ⴆ","Ⴇ","Ⴈ","Ⴉ","Ⴊ","Ⴋ","Ⴌ","Ⴍ","Ⴎ","Ⴏ","Ⴐ","Ⴑ","Ⴒ","Ⴓ","Ⴔ","Ⴕ","Ⴖ","Ⴗ","Ⴘ","Ⴙ","Ⴚ","Ⴛ",
    "Ⴜ","Ⴝ","Ⴞ","Ⴟ","Ⴠ","Ⴡ","Ⴢ","Ⴣ","Ⴤ","Ⴥ","Ⴧ","Ⴭ","Ꭰ","Ꭱ","Ꭲ","Ꭳ","Ꭴ","Ꭵ","Ꭶ","Ꭷ","Ꭸ","Ꭹ","Ꭺ",
    "Ꭻ","Ꭼ","Ꭽ","Ꭾ","Ꭿ","Ꮀ","Ꮁ","Ꮂ","Ꮃ","Ꮄ","Ꮅ","Ꮆ","Ꮇ","Ꮈ","Ꮉ","Ꮊ","Ꮋ","Ꮌ","Ꮍ","Ꮎ","Ꮏ","Ꮐ","Ꮑ",
    "Ꮒ","Ꮓ","Ꮔ","Ꮕ","Ꮖ","Ꮗ","Ꮘ","Ꮙ","Ꮚ","Ꮛ","Ꮜ","Ꮝ","Ꮞ","Ꮟ","Ꮠ","Ꮡ","Ꮢ","Ꮣ","Ꮤ","Ꮥ","Ꮦ","Ꮧ","Ꮨ",
    "Ꮩ","Ꮪ","Ꮫ","Ꮬ","Ꮭ","Ꮮ","Ꮯ","Ꮰ","Ꮱ","Ꮲ","Ꮳ","Ꮴ","Ꮵ","Ꮶ","Ꮷ","Ꮸ","Ꮹ","Ꮺ","Ꮻ","Ꮼ","Ꮽ","Ꮾ","Ꮿ",
    "Ᏸ","Ᏹ","Ᏺ","Ᏻ","Ᏼ","Ᏽ","Ა","Ბ","Გ","Დ","Ე","Ვ","Ზ","Თ","Ი","Კ","Ლ","Მ","Ნ","Ო","Პ","Ჟ","Რ",
    "Ს","Ტ","Უ","Ფ","Ქ","Ღ","Ყ","Შ","Ჩ","Ც","Ძ","Წ","Ჭ","Ხ","Ჯ","Ჰ","Ჱ","Ჲ","Ჳ","Ჴ","Ჵ","Ჶ","Ჷ",
    "Ჸ","Ჹ","Ჺ","Ჽ","Ჾ","Ჿ","U+1E00","U+1E02","U+1E04","U+1E06","U+1E08","U+1E0A","U+1E0C",
    "U+1E0E","U+1E10","U+1E12","U+1E14","U+1E16","U+1E18","U+1E1A","U+1E1C","U+1E1E","U+1E20",
    "U+1E22","U+1E24","U+1E26","U+1E28","U+1E2A","U+1E2C","U+1E2E","U+1E30","U+1E32","U+1E34",
    "U+1E36","U+1E38","U+1E3A","U+1E3C","U+1E3E","U+1E40","U+1E42","U+1E44","U+1E46","U+1E48",
    "U+1E4A","U+1E4C","U+1E4E","U+1E50","U+1E52","U+1E54","U+1E56","U+1E58","U+1E5A","U+1E5C",
    "U+1E5E","U+1E60","U+1E62","U+1E64","U+1E66","U+1E68","U+1E6A","U+1E6C","U+1E6E","U+1E70",
    "U+1E72","U+1E74","U+1E76","U+1E78","U+1E7A","U+1E7C","U+1E7E","Ẁ","Ẃ","Ẅ","Ẇ","Ẉ","Ẋ","Ẍ",
    "Ẏ","Ẑ","Ẓ","Ẕ","ẞ","Ạ","Ả","Ấ","Ầ","Ẩ","Ẫ","Ậ","Ắ","Ằ","Ẳ","Ẵ","Ặ","Ẹ","Ẻ","Ẽ","Ế","Ề","Ể",
    "Ễ","Ệ","Ỉ","Ị","Ọ","Ỏ","Ố","Ồ","Ổ","Ỗ","Ộ","Ớ","Ờ","Ở","Ỡ","Ợ","Ụ","Ủ","Ứ","Ừ","Ử","Ữ","Ự",
    "Ỳ","Ỵ","Ỷ","Ỹ","Ỻ","Ỽ","Ỿ","U+1F08","U+1F09","U+1F0A","U+1F0B","U+1F0C","U+1F0D","U+1F0E",
    "U+1F0F","U+1F18","U+1F19","U+1F1A","U+1F1B","U+1F1C","U+1F1D","U+1F28","U+1F29","U+1F2A",
    "U+1F2B","U+1F2C","U+1F2D","U+1F2E","U+1F2F","U+1F38","U+1F39","U+1F3A","U+1F3B","U+1F3C",
    "U+1F3D","U+1F3E","U+1F3F","U+1F48","U+1F49","U+1F4A","U+1F4B","U+1F4C","U+1F4D","U+1F59",
    "U+1F5B","U+1F5D","U+1F5F","U+1F68","U+1F69","U+1F6A","U+1F6B","U+1F6C","U+1F6D","U+1F6E",
    "U+1F6F","ᾈ","ᾉ","ᾊ","ᾋ","ᾌ","ᾍ","ᾎ","ᾏ","ᾘ","ᾙ","ᾚ","ᾛ","ᾜ","ᾝ","ᾞ","ᾟ","ᾨ","ᾩ","ᾪ","ᾫ",
    "ᾬ","ᾭ","ᾮ","ᾯ","Ᾰ","Ᾱ","Ὰ","Ά","ᾼ","Ὲ","Έ","Ὴ","Ή","ῌ","Ῐ","Ῑ","Ὶ","Ί","Ῠ","Ῡ","Ὺ","Ύ","Ῥ",
    "Ὸ","Ό","Ὼ","Ώ","ῼ","U+2126","U+212A","U+212B","U+2132","U+2160","U+2161","U+2162","U+2163",
    "U+2164","U+2165","U+2166","U+2167","U+2168","U+2169","U+216A","U+216B","U+216C","U+216D",
    "U+216E","U+216F","Ↄ","Ⓐ","Ⓑ","Ⓒ","Ⓓ","Ⓔ","Ⓕ","Ⓖ","Ⓗ","Ⓘ","Ⓙ","Ⓚ","Ⓛ","Ⓜ","Ⓝ","Ⓞ","Ⓟ","Ⓠ",
    "Ⓡ","Ⓢ","Ⓣ","Ⓤ","Ⓥ","Ⓦ","Ⓧ","Ⓨ","Ⓩ","U+2C00","U+2C01","U+2C02","U+2C03","U+2C04","U+2C05",
    "U+2C06","U+2C07","U+2C08","U+2C09","U+2C0A","U+2C0B","U+2C0C","U+2C0D","U+2C0E","U+2C0F",
    "U+2C10","U+2C11","U+2C12","U+2C13","U+2C14","U+2C15","U+2C16","U+2C17","U+2C18","U+2C19",
    "U+2C1A","U+2C1B","U+2C1C","U+2C1D","U+2C1E","U+2C1F","U+2C20","U+2C21","U+2C22","U+2C23",
    "U+2C24","U+2C25","U+2C26","U+2C27","U+2C28","U+2C29","U+2C2A","U+2C2B","U+2C2C","U+2C2D",
    "U+2C2E","U+2C2F","U+2C60","U+2C62","U+2C63","U+2C64","U+2C67","U+2C69","U+2C6B","U+2C6D",
    "U+2C6E","U+2C6F","U+2C70","U+2C72","U+2C75","U+2C7E","U+2C7F","Ⲁ","Ⲃ","Ⲅ","Ⲇ","Ⲉ","Ⲋ","Ⲍ",
    "Ⲏ","Ⲑ","Ⲓ","Ⲕ","Ⲗ","Ⲙ","Ⲛ","Ⲝ","Ⲟ","Ⲡ","Ⲣ","Ⲥ","Ⲧ","Ⲩ","Ⲫ","Ⲭ","Ⲯ","Ⲱ","Ⲳ","Ⲵ","Ⲷ","Ⲹ","Ⲻ",
    "Ⲽ","Ⲿ","Ⳁ","Ⳃ","Ⳅ","Ⳇ","Ⳉ","Ⳋ","Ⳍ","Ⳏ","Ⳑ","Ⳓ","Ⳕ","Ⳗ","Ⳙ","Ⳛ","Ⳝ","Ⳟ","Ⳡ","Ⳣ","Ⳬ","Ⳮ","Ⳳ",
    "U+A640","U+A642","U+A644","U+A646","U+A648","U+A64A","U+A64C","U+A64E","U+A650","U+A652",
    "U+A654","U+A656","U+A658","U+A65A","U+A65C","U+A65E","U+A660","U+A662","U+A664","U+A666",
    "U+A668","U+A66A","U+A66C","Ꚁ","Ꚃ","Ꚅ","Ꚇ","Ꚉ","Ꚋ","Ꚍ","Ꚏ","Ꚑ","Ꚓ","Ꚕ","Ꚗ","Ꚙ","Ꚛ","U+A722",
    "U+A724","U+A726","U+A728","U+A72A","U+A72C","U+A72E","U+A732","U+A734","U+A736","U+A738",
    "U+A73A","U+A73C","U+A73E","U+A740","U+A742","U+A744","U+A746","U+A748","U+A74A","U+A74C",
    "U+A74E","U+A750","U+A752","U+A754","U+A756","U+A758","U+A75A","U+A75C","U+A75E","U+A760",
    "U+A762","U+A764","U+A766","U+A768","U+A76A","U+A76C","U+A76E","U+A779","U+A77B","U+A77D",
    "U+A77E","Ꞁ","Ꞃ","Ꞅ","Ꞇ","Ꞌ","Ɥ","Ꞑ","Ꞓ","Ꞗ","Ꞙ","Ꞛ","Ꞝ","Ꞟ","Ꞡ","Ꞣ","Ꞥ","Ꞧ","Ꞩ","Ɦ","Ɜ",
    "Ɡ","Ɬ","Ɪ","Ʞ","Ʇ","Ʝ","Ꭓ","Ꞵ","Ꞷ","Ꞹ","Ꞻ","Ꞽ","Ꞿ","Ꟁ","Ꟃ","Ꞔ","Ʂ","Ᶎ","Ꟈ","Ꟊ","Ꟑ","Ꟗ","Ꟙ",
    "Ꟶ","U+FF21","U+FF22","U+FF23","U+FF24","U+FF25","U+FF26","U+FF27","U+FF28","U+FF29",
    "U+FF2A","U+FF2B","U+FF2C","U+FF2D","U+FF2E","U+FF2F","U+FF30","U+FF31","U+FF32","U+FF33",
    "U+FF34","U+FF35","U+FF36","U+FF37","U+FF38","U+FF39","U+FF3A","U+10400","U+10401",
    "U+10402","U+10403","U+10404","U+10405","U+10406","U+10407","U+10408","U+10409","U+1040A",
    "U+1040B","U+1040C","U+1040D","U+1040E","U+1040F","U+10410","U+10411","U+10412","U+10413",
    "U+10414","U+10415","U+10416","U+10417","U+10418","U+10419","U+1041A","U+1041B","U+1041C",
    "U+1041D","U+1041E","U+1041F","U+10420","U+10421","U+10422","U+10423","U+10424","U+10425",
    "U+10426","U+10427","U+104B0","U+104B1","U+104B2","U+104B3","U+104B4","U+104B5","U+104B6",
    "U+104B7","U+104B8","U+104B9","U+104BA","U+104BB","U+104BC","U+104BD","U+104BE","U+104BF",
    "U+104C0","U+104C1","U+104C2","U+104C3","U+104C4","U+104C5","U+104C6","U+104C7","U+104C8",
    "U+104C9","U+104CA","U+104CB","U+104CC","U+104CD","U+104CE","U+104CF","U+104D0","U+104D1",
    "U+104D2","U+104D3","U+10570","U+10571","U+10572","U+10573","U+10574","U+10575","U+10576",
    "U+10577","U+10578","U+10579","U+1057A","U+1057C","U+1057D","U+1057E","U+1057F","U+10580",
    "U+10581","U+10582","U+10583","U+10584","U+10585","U+10586","U+10587","U+10588","U+10589",
    "U+1058A","U+1058C","U+1058D","U+1058E","U+1058F","U+10590","U+10591","U+10592","U+10594",
    "U+10595","U+10C80","U+10C81","U+10C82","U+10C83","U+10C84","U+10C85","U+10C86","U+10C87",
    "U+10C88","U+10C89","U+10C8A","U+10C8B","U+10C8C","U+10C8D","U+10C8E","U+10C8F","U+10C90",
    "U+10C91","U+10C92","U+10C93","U+10C94","U+10C95","U+10C96","U+10C97","U+10C98","U+10C99",
    "U+10C9A","U+10C9B","U+10C9C","U+10C9D","U+10C9E","U+10C9F","U+10CA0","U+10CA1","U+10CA2",
    "U+10CA3","U+10CA4","U+10CA5","U+10CA6","U+10CA7","U+10CA8","U+10CA9","U+10CAA","U+10CAB",
    "U+10CAC","U+10CAD","U+10CAE","U+10CAF","U+10CB0","U+10CB1","U+10CB2","U+118A0","U+118A1",
    "U+118A2","U+118A3","U+118A4","U+118A5","U+118A6","U+118A7","U+118A8","U+118A9","U+118AA",
    "U+118AB","U+118AC","U+118AD","U+118AE","U+118AF","U+118B0","U+118B1","U+118B2","U+118B3",
    "U+118B4","U+118B5","U+118B6","U+118B7","U+118B8","U+118B9","U+118BA","U+118BB","U+118BC",
    "U+118BD","U+118BE","U+118BF","U+16E40","U+16E41","U+16E42","U+16E43","U+16E44","U+16E45",
    "U+16E46","U+16E47","U+16E48","U+16E49","U+16E4A","U+16E4B","U+16E4C","U+16E4D","U+16E4E",
    "U+16E4F","U+16E50","U+16E51","U+16E52","U+16E53","U+16E54","U+16E55","U+16E56","U+16E57",
    "U+16E58","U+16E59","U+16E5A","U+16E5B","U+16E5C","U+16E5D","U+16E5E","U+16E5F","U+1E900",
    "U+1E901","U+1E902","U+1E903","U+1E904","U+1E905","U+1E906","U+1E907","U+1E908","U+1E909",
    "U+1E90A","U+1E90B","U+1E90C","U+1E90D","U+1E90E","U+1E90F","U+1E910","U+1E911","U+1E912",
    "U+1E913","U+1E914","U+1E915","U+1E916","U+1E917","U+1E918","U+1E919","U+1E91A","U+1E91B",
    "U+1E91C","U+1E91D","U+1E91E","U+1E91F","U+1E920","U+1E921">>
LowerChars == <<"a","b","c","d","e","f","g","h","i","j","k","l","m","n","o","p","q","r","s","t",
    "u","v","w","x","y","z","à","á","â","ã","ä","å","æ","ç","è","é","ê","ë","ì","í","î","ï","ð",
    "ñ","ò","ó","ô","õ","ö","ø","ù","ú","û","ü","ý","þ","U+0101","U+0103","U+0105","U+0107",
    "U+0109","U+010B","U+010D","U+010F","U+0111","U+0113","U+0115","U+0117","U+0119","U+011B",
    "U+011D","U+011F","U+0121","U+0123","U+0125","U+0127","U+0129","U+012B","U+012D","U+012F",
    "U+0133","U+0135","U+0137","U+013A","U+013C","U+013E","U+0140","U+0142","U+0144","U+0146",
    "U+0148","U+014B","U+014D","U+014F","U+0151","U+0153","U+0155","U+0157","U+0159","U+015B",
    "U+015D","U+015F","U+0161","U+0163","U+0165","U+0167","U+0169","U+016B","U+016D","U+016F",
    "U+0171","U+0173","U+0175","U+0177","ÿ","U+017A","U+017C","U+017E","U+0253","ƃ","ƅ",
    "U+0254","ƈ","U+0256","U+0257","ƌ","ǝ","U+0259","U+025B","ƒ","U+0260","U+0263","U+0269",
    "U+0268","ƙ","U+026F","U+0272","U+0275","ơ","ƣ","ƥ","ʀ","ƨ","ʃ","ƭ","ʈ","ư","ʊ","ʋ","ƴ","ƶ",
    "ʒ","ƹ","ƽ","ǆ","ǆ","ǉ","ǉ","ǌ","ǌ","ǎ","ǐ","ǒ","ǔ","ǖ","ǘ","ǚ","ǜ","ǟ","ǡ","ǣ","ǥ","ǧ","ǩ",
    "ǫ","ǭ","ǯ","ǳ","ǳ","ǵ","ƕ","ƿ","ǹ","ǻ","ǽ","ǿ","U+0201","U+0203","U+0205","U+0207",
    "U+0209","U+020B","U+020D","U+020F","U+0211","U+0213","U+0215","U+0217","U+0219","U+021B",
    "U+021D","U+021F","ƞ","U+0223","U+0225","U+0227","U+0229","U+022B","U+022D","U+022F",
    "U+0231","U+0233","U+2C65","U+023C","ƚ","U+2C66","U+0242","ƀ","ʉ","ʌ","U+0247","U+0249",
    "U+024B","U+024D","U+024F","U+0371","U+0373","U+0377","ϳ","ά","έ","ή","ί","ό","ύ","ώ","α",
    "β","γ","δ","ε","ζ","η","θ","ι","κ","λ","μ","ν","ξ","ο","π","ρ","σ","τ","υ","φ","χ","ψ","ω",
    "ϊ","ϋ","ϗ","ϙ","ϛ","ϝ","ϟ","ϡ","ϣ","ϥ","ϧ","ϩ","ϫ","ϭ","ϯ","θ","ϸ","ϲ","ϻ","U+037B",
    "U+037C","U+037D","U+0450","U+0451","U+0452","U+0453","U+0454","U+0455","U+0456","U+0457",
    "U+0458","U+0459","U+045A","U+045B","U+045C","U+045D","U+045E","U+045F","U+0430","U+0431",
    "U+0432","U+0433","U+0434","U+0435","U+0436","U+0437","U+0438","U+0439","U+043A","U+043B",
    "U+043C","U+043D","U+043E","U+043F","U+0440","U+0441","U+0442","U+0443","U+0444","U+0445",
    "U+0446","U+0447","U+0448","U+0449","U+044A","U+044B","U+044C","U+044D","U+044E","U+044F",
    "U+0461","U+0463","U+0465","U+0467","U+0469","U+046B","U+046D","U+046F","U+0471","U+0473",
    "U+0475","U+0477","U+0479","U+047B","U+047D","U+047F","ҁ","ҋ","ҍ","ҏ","ґ","ғ","ҕ","җ","ҙ",
    "қ","ҝ","ҟ","ҡ","ң","ҥ","ҧ","ҩ","ҫ","ҭ","ү","ұ","ҳ","ҵ","ҷ","ҹ","һ","ҽ","ҿ","ӏ","ӂ","ӄ","ӆ",
    "ӈ","ӊ","ӌ","ӎ","ӑ","ӓ","ӕ","ӗ","ә","ӛ","ӝ","ӟ","ӡ","ӣ","ӥ","ӧ","ө","ӫ","ӭ","ӯ","ӱ","ӳ","ӵ",
    "ӷ","ӹ","ӻ","ӽ","ӿ","U+0501","U+0503","U+0505","U+0507","U+0509","U+050B","U+050D","U+050F",
    "U+0511","U+0513","U+0515","U+0517","U+0519","U+051B","U+051D","U+051F","U+0521","U+0523",
    "U+0525","U+0527","U+0529","U+052B","U+052D","U+052F","U+0561","U+0562","U+0563","U+0564",
    "U+0565","U+0566","U+0567","U+0568","U+0569","U+056A","U+056B","U+056C","U+056D","U+056E",
    "U+056F","U+0570","U+0571","U+0572","U+0573","U+0574","U+0575","U+0576","U+0577","U+0578",
    "U+0579","U+057A","U+057B","U+057C","U+057D","U+057E","U+057F","ր","ց","ւ","փ","ք","օ","ֆ",
    "U+2D00","U+2D01","U+2D02","U+2D03","U+2D04","U+2D05","U+2D06","U+2D07","U+2D08","U+2D09",
    "U+2D0A","U+2D0B","U+2D0C","U+2D0D","U+2D0E","U+2D0F","U+2D10","U+2D11","U+2D12","U+2D13",
    "U+2D14","U+2D15","U+2D16","U+2D17","U+2D18","U+2D19","U+2D1A","U+2D1B","U+2D1C","U+2D1D",
    "U+2D1E","U+2D1F","U+2D20","U+2D21","U+2D22","U+2D23","U+2D24","U+2D25","U+2D27","U+2D2D",
    "U+AB70","U+AB71","U+AB72","U+AB73","U+AB74","U+AB75","U+AB76","U+AB77","U+AB78","U+AB79",
    "U+AB7A","U+AB7B","U+AB7C","U+AB7D","U+AB7E","U+AB7F","ꮀ","ꮁ","ꮂ","ꮃ","ꮄ","ꮅ","ꮆ","ꮇ","ꮈ",
    "ꮉ","ꮊ","ꮋ","ꮌ","ꮍ","ꮎ","ꮏ","ꮐ","ꮑ","ꮒ","ꮓ","ꮔ","ꮕ","ꮖ","ꮗ","ꮘ","ꮙ","ꮚ","ꮛ","ꮜ","ꮝ","ꮞ","ꮟ",
    "ꮠ","ꮡ","ꮢ","ꮣ","ꮤ","ꮥ","ꮦ","ꮧ","ꮨ","ꮩ","ꮪ","ꮫ","ꮬ","ꮭ","ꮮ","ꮯ","ꮰ","ꮱ","ꮲ","ꮳ","ꮴ","ꮵ","ꮶ",
    "ꮷ","ꮸ","ꮹ","ꮺ","ꮻ","ꮼ","ꮽ","ꮾ","ꮿ","ᏸ","ᏹ","ᏺ","ᏻ","ᏼ","ᏽ","ა","ბ","გ","დ","ე","ვ","ზ","თ",
    "ი","კ","ლ","მ","ნ","ო","პ","ჟ","რ","ს","ტ","უ","ფ","ქ","ღ","ყ","შ","ჩ","ც","ძ","წ","ჭ","ხ",
    "ჯ","ჰ","ჱ","ჲ","ჳ","ჴ","ჵ","ჶ","ჷ","ჸ","ჹ","ჺ","ჽ","ჾ","ჿ","U+1E01","U+1E03","U+1E05",
    "U+1E07","U+1E09","U+1E0B","U+1E0D","U+1E0F","U+1E11","U+1E13","U+1E15","U+1E17","U+1E19",
    "U+1E1B","U+1E1D","U+1E1F","U+1E21","U+1E23","U+1E25","U+1E27","U+1E29","U+1E2B","U+1E2D",
    "U+1E2F","U+1E31","U+1E33","U+1E35","U+1E37","U+1E39","U+1E3B","U+1E3D","U+1E3F","U+1E41",
    "U+1E43","U+1E45","U+1E47","U+1E49","U+1E4B","U+1E4D","U+1E4F","U+1E51","U+1E53","U+1E55",
    "U+1E57","U+1E59","U+1E5B","U+1E5D","U+1E5F","U+1E61","U+1E63","U+1E65","U+1E67","U+1E69",
    "U+1E6B","U+1E6D","U+1E6F","U+1E71","U+1E73","U+1E75","U+1E77","U+1E79","U+1E7B","U+1E7D",
    "U+1E7F","ẁ","ẃ","ẅ","ẇ","ẉ","ẋ","ẍ","ẏ","ẑ","ẓ","ẕ","ß","ạ","ả","ấ","ầ","ẩ","ẫ","ậ","ắ",
    "ằ","ẳ","ẵ","ặ","ẹ","ẻ","ẽ","ế","ề","ể","ễ","ệ","ỉ","ị","ọ","ỏ","ố","ồ","ổ","ỗ","ộ","ớ","ờ",
    "ở","ỡ","ợ","ụ","ủ","ứ","ừ","ử","ữ","ự","ỳ","ỵ","ỷ","ỹ","ỻ","ỽ","ỿ","U+1F00","U+1F01",
    "U+1F02","U+1F03","U+1F04","U+1F05","U+1F06","U+1F07","U+1F10","U+1F11","U+1F12","U+1F13",
    "U+1F14","U+1F15","U+1F20","U+1F21","U+1F22","U+1F23","U+1F24","U+1F25","U+1F26","U+1F27",
    "U+1F30","U+1F31","U+1F32","U+1F33","U+1F34","U+1F35","U+1F36","U+1F37","U+1F40","U+1F41",
    "U+1F42","U+1F43","U+1F44","U+1F45","U+1F51","U+1F53","U+1F55","U+1F57","U+1F60","U+1F61",
    "U+1F62","U+1F63","U+1F64","U+1F65","U+1F66","U+1F67","ᾀ","ᾁ","ᾂ","ᾃ","ᾄ","ᾅ","ᾆ","ᾇ","ᾐ",
    "ᾑ","ᾒ","ᾓ","ᾔ","ᾕ","ᾖ","ᾗ","ᾠ","ᾡ","ᾢ","ᾣ","ᾤ","ᾥ","ᾦ","ᾧ","ᾰ","ᾱ","U+1F70","U+1F71","ᾳ",
    "U+1F72","U+1F73","U+1F74","U+1F75","ῃ","ῐ","ῑ","U+1F76","U+1F77","ῠ","ῡ","U+1F7A","U+1F7B",
    "ῥ","U+1F78","U+1F79","U+1F7C","U+1F7D","ῳ","ω","k","å","U+214E","U+2170","U+2171","U+2172",
    "U+2173","U+2174","U+2175","U+2176","U+2177","U+2178","U+2179","U+217A","U+217B","U+217C",
    "U+217D","U+217E","U+217F","ↄ","ⓐ","ⓑ","ⓒ","ⓓ","ⓔ","ⓕ","ⓖ","ⓗ","ⓘ","ⓙ","ⓚ","ⓛ","ⓜ","ⓝ","ⓞ",
    "ⓟ","ⓠ","ⓡ","ⓢ","ⓣ","ⓤ","ⓥ","ⓦ","ⓧ","ⓨ","ⓩ","U+2C30","U+2C31","U+2C32","U+2C33","U+2C34",
    "U+2C35","U+2C36","U+2C37","U+2C38","U+2C39","U+2C3A","U+2C3B","U+2C3C","U+2C3D","U+2C3E",
    "U+2C3F","U+2C40","U+2C41","U+2C42","U+2C43","U+2C44","U+2C45","U+2C46","U+2C47","U+2C48",
    "U+2C49","U+2C4A","U+2C4B","U+2C4C","U+2C4D","U+2C4E","U+2C4F","U+2C50","U+2C51","U+2C52",
    "U+2C53","U+2C54","U+2C55","U+2C56","U+2C57","U+2C58","U+2C59","U+2C5A","U+2C5B","U+2C5C",
    "U+2C5D","U+2C5E","U+2C5F","U+2C61","U+026B","U+1D7D","U+027D","U+2C68","U+2C6A","U+2C6C",
    "U+0251","U+0271","U+0250","U+0252","U+2C73","U+2C76","U+023F","U+0240","ⲁ","ⲃ","ⲅ","ⲇ","ⲉ",
    "ⲋ","ⲍ","ⲏ","ⲑ","ⲓ","ⲕ","ⲗ","ⲙ","ⲛ","ⲝ","ⲟ","ⲡ","ⲣ","ⲥ","ⲧ","ⲩ","ⲫ","ⲭ","ⲯ","ⲱ","ⲳ","ⲵ","ⲷ",
    "ⲹ","ⲻ","ⲽ","ⲿ","ⳁ","ⳃ","ⳅ","ⳇ","ⳉ","ⳋ","ⳍ","ⳏ","ⳑ","ⳓ","ⳕ","ⳗ","ⳙ","ⳛ","ⳝ","ⳟ","ⳡ","ⳣ","ⳬ",
    "ⳮ","ⳳ","U+A641","U+A643","U+A645","U+A647","U+A649","U+A64B","U+A64D","U+A64F","U+A651",
    "U+A653","U+A655","U+A657","U+A659","U+A65B","U+A65D","U+A65F","U+A661","U+A663","U+A665",
    "U+A667","U+A669","U+A66B","U+A66D","ꚁ","ꚃ","ꚅ","ꚇ","ꚉ","ꚋ","ꚍ","ꚏ","ꚑ","ꚓ","ꚕ","ꚗ","ꚙ","ꚛ",
    "U+A723","U+A725","U+A727","U+A729","U+A72B","U+A72D","U+A72F","U+A733","U+A735","U+A737",
    "U+A739","U+A73B","U+A73D","U+A73F","U+A741","U+A743","U+A745","U+A747","U+A749","U+A74B",
    "U+A74D","U+A74F","U+A751","U+A753","U+A755","U+A757","U+A759","U+A75B","U+A75D","U+A75F",
    "U+A761","U+A763","U+A765","U+A767","U+A769","U+A76B","U+A76D","U+A76F","U+A77A","U+A77C",
    "U+1D79","U+A77F","ꞁ","ꞃ","ꞅ","ꞇ","ꞌ","U+0265","ꞑ","ꞓ","ꞗ","ꞙ","ꞛ","ꞝ","ꞟ","ꞡ","ꞣ","ꞥ","ꞧ",
    "ꞩ","U+0266","U+025C","U+0261","U+026C","U+026A","ʞ","ʇ","ʝ","U+AB53","ꞵ","ꞷ","ꞹ","ꞻ","ꞽ",
    "ꞿ","ꟁ","ꟃ","ꞔ","ʂ","ᶎ","ꟈ","ꟊ","ꟑ","ꟗ","ꟙ","ꟶ","U+FF41","U+FF42","U+FF43","U+FF44",
    "U+FF45","U+FF46","U+FF47","U+FF48","U+FF49","U+FF4A","U+FF4B","U+FF4C","U+FF4D","U+FF4E",
    "U+FF4F","U+FF50","U+FF51","U+FF52","U+FF53","U+FF54","U+FF55","U+FF56","U+FF57","U+FF58",
    "U+FF59","U+FF5A","U+10428","U+10429","U+1042A","U+1042B","U+1042C","U+1042D","U+1042E",
    "U+1042F","U+10430","U+10431","U+10432","U+10433","U+10434","U+10435","U+10436","U+10437",
    "U+10438","U+10439","U+1043A","U+1043B","U+1043C","U+1043D","U+1043E","U+1043F","U+10440",
    "U+10441","U+10442","U+10443","U+10444","U+10445","U+10446","U+10447","U+10448","U+10449",
    "U+1044A","U+1044B","U+1044C","U+1044D","U+1044E","U+1044F","U+104D8","U+104D9","U+104DA",
    "U+104DB","U+104DC","U+104DD","U+104DE","U+104DF","U+104E0","U+104E1","U+104E2","U+104E3",
    "U+104E4","U+104E5","U+104E6","U+104E7","U+104E8","U+104E9","U+104EA","U+104EB","U+104EC",
    "U+104ED","U+104EE","U+104EF","U+104F0","U+104F1","U+104F2","U+104F3","U+104F4","U+104F5",
    "U+104F6","U+104F7","U+104F8","U+104F9","U+104FA","U+104FB","U+10597","U+10598","U+10599",
    "U+1059A","U+1059B","U+1059C","U+1059D","U+1059E","U+1059F","U+105A0","U+105A1","U+105A3",
    "U+105A4","U+105A5","U+105A6","U+105A7","U+105A8","U+105A9","U+105AA","U+105AB","U+105AC",
    "U+105AD","U+105AE","U+105AF","U+105B0","U+105B1","U+105B3","U+105B4","U+105B5","U+105B6",
    "U+105B7","U+105B8","U+105B9","U+105BB","U+105BC","U+10CC0","U+10CC1","U+10CC2","U+10CC3",
    "U+10CC4","U+10CC5","U+10CC6","U+10CC7","U+10CC8","U+10CC9","U+10CCA","U+10CCB","U+10CCC",
    "U+10CCD","U+10CCE","U+10CCF","U+10CD0","U+10CD1","U+10CD2","U+10CD3","U+10CD4","U+10CD5",
    "U+10CD6","U+10CD7","U+10CD8","U+10CD9","U+10CDA","U+10CDB","U+10CDC","U+10CDD","U+10CDE",
    "U+10CDF","U+10CE0","U+10CE1","U+10CE2","U+10CE3","U+10CE4","U+10CE5","U+10CE6","U+10CE7",
    "U+10CE8","U+10CE9","U+10CEA","U+10CEB","U+10CEC","U+10CED","U+10CEE","U+10CEF","U+10CF0",
    "U+10CF1","U+10CF2","U+118C0","U+118C1","U+118C2","U+118C3","U+118C4","U+118C5","U+118C6",
    "U+118C7","U+118C8","U+118C9","U+118CA","U+118CB","U+118CC","U+118CD","U+118CE","U+118CF",
    "U+118D0","U+118D1","U+118D2","U+118D3","U+118D4","U+118D5","U+118D6","U+118D7","U+118D8",
    "U+118D9","U+118DA","U+118DB","U+118DC","U+118DD","U+118DE","U+118DF","U+16E60","U+16E61",
    "U+16E62","U+16E63","U+16E64","U+16E65","U+16E66","U+16E67","U+16E68","U+16E69","U+16E6A",
    "U+16E6B","U+16E6C","U+16E6D","U+16E6E","U+16E6F","U+16E70","U+16E71","U+16E72","U+16E73",
    "U+16E74","U+16E75","U+16E76","U+16E77","U+16E78","U+16E79","U+16E7A","U+16E7B","U+16E7C",
    "U+16E7D","U+16E7E","U+16E7F","U+1E922","U+1E923","U+1E924","U+1E925","U+1E926","U+1E927",
    "U+1E928","U+1E929","U+1E92A","U+1E92B","U+1E92C","U+1E92D","U+1E92E","U+1E92F","U+1E930",
    "U+1E931","U+1E932","U+1E933","U+1E934","U+1E935","U+1E936","U+1E937","U+1E938","U+1E939",
    "U+1E93A","U+1E93B","U+1E93C","U+1E93D","U+1E93E","U+1E93F","U+1E940","U+1E941","U+1E942",
    "U+1E943">>

LowerMap ==
    [ c \in { UpperChars[i] : i \in DOMAIN UpperChars } |->
        LowerChars[CHOOSE i \in DOMAIN UpperChars : UpperChars[i] = c] ]

\* str.lower() on one character: U+0130 becomes two characters.
LowerChar(c) ==
    IF c = "U+0130" THEN <<"i", "U+0307">>
    ELSE IF c \in DOMAIN LowerMap THEN <<LowerMap[c]>>
    ELSE <<c>>

\* The characters str.lower() treats as cased, and those it skips when it
\* looks for the cased neighbours of a capital sigma.
CasedChars == {"A","B","C","D","E","F","G","H","I","J","K","L","M","N","O","P","Q","R","S","T",
    "U","V","W","X","Y","Z","a","b","c","d","e","f","g","h","i","j","k","l","m","n","o","p","q",
    "r","s","t","u","v","w","x","y","z","ª","µ","º","À","Á","Â","Ã","Ä","Å","Æ","Ç","È","É","Ê",
    "Ë","Ì","Í","Î","Ï","Ð","Ñ","Ò","Ó","Ô","Õ","Ö","Ø","Ù","Ú","Û","Ü","Ý","Þ","ß","à","á","â",
    "ã","ä","å","æ","ç","è","é","ê","ë","ì","í","î","ï","ð","ñ","ò","ó","ô","õ","ö","ø","ù","ú",
    "û","ü","ý","þ","ÿ","U+0100","U+0101","U+0102","U+0103","U+0104","U+0105","U+0106","U+0107",
    "U+0108","U+0109","U+010A","U+010B","U+010C","U+010D","U+010E","U+010F","U+0110","U+0111",
    "U+0112","U+0113","U+0114","U+0115","U+0116","U+0117","U+0118","U+0119","U+011A","U+011B",
    "U+011C","U+011D","U+011E","U+011F","U+0120","U+0121","U+0122","U+0123","U+0124","U+0125",
    "U+0126","U+0127","U+0128","U+0129","U+012A","U+012B","U+012C","U+012D","U+012E","U+012F",
    "U+0130","U+0131","U+0132","U+0133","U+0134","U+0135","U+0136","U+0137","U+0138","U+0139",
    "U+013A","U+013B","U+013C","U+013D","U+013E","U+013F","U+0140","U+0141","U+0142","U+0143",
    "U+0144","U+0145","U+0146","U+0147","U+0148","U+0149","U+014A","U+014B","U+014C","U+014D",
    "U+014E","U+014F","U+0150","U+0151","U+0152","U+0153","U+0154","U+0155","U+0156","U+0157",
    "U+0158","U+0159","U+015A","U+015B","U+015C","U+015D","U+015E","U+015F","U+0160","U+0161",
    "U+0162","U+0163","U+0164","U+0165","U+0166","U+0167","U+0168","U+0169","U+016A","U+016B",
    "U+016C","U+016D","U+016E","U+016F","U+0170","U+0171","U+0172","U+0173","U+0174","U+0175",
    "U+0176","U+0177","U+0178","U+0179","U+017A","U+017B","U+017C","U+017D","U+017E","U+017F",
    "ƀ","Ɓ","Ƃ","ƃ","Ƅ","ƅ","Ɔ","Ƈ","ƈ","Ɖ","Ɗ","Ƌ","ƌ","ƍ","Ǝ","Ə","Ɛ","Ƒ","ƒ","Ɠ","Ɣ","ƕ","Ɩ",
    "Ɨ","Ƙ","ƙ","ƚ","ƛ","Ɯ","Ɲ","ƞ","Ɵ","Ơ","ơ","Ƣ","ƣ","Ƥ","ƥ","Ʀ","Ƨ","ƨ","Ʃ","ƪ","ƫ","Ƭ","ƭ",
    "Ʈ","Ư","ư","Ʊ","Ʋ","Ƴ","ƴ","Ƶ","ƶ","Ʒ","Ƹ","ƹ","ƺ","Ƽ","ƽ","ƾ","ƿ","Ǆ","ǅ","ǆ","Ǉ","ǈ","ǉ",
    "Ǌ","ǋ","ǌ","Ǎ","ǎ","Ǐ","ǐ","Ǒ","ǒ","Ǔ","ǔ","Ǖ","ǖ","Ǘ","ǘ","Ǚ","ǚ","Ǜ","ǜ","ǝ","Ǟ","ǟ","Ǡ",
    "ǡ","Ǣ","ǣ","Ǥ","ǥ","Ǧ","ǧ","Ǩ","ǩ","Ǫ","ǫ","Ǭ","ǭ","Ǯ","ǯ","ǰ","Ǳ","ǲ","ǳ","Ǵ","ǵ","Ƕ","Ƿ",
    "Ǹ","ǹ","Ǻ","ǻ","Ǽ","ǽ","Ǿ","ǿ","U+0200","U+0201","U+0202","U+0203","U+0204","U+0205",
    "U+0206","U+0207","U+0208","U+0209","U+020A","U+020B","U+020C","U+020D","U+020E","U+020F",
    "U+0210","U+0211","U+0212","U+0213","U+0214","U+0215","U+0216","U+0217","U+0218","U+0219",
    "U+021A","U+021B","U+021C","U+021D","U+021E","U+021F","U+0220","U+0221","U+0222","U+0223",
    "U+0224","U+0225","U+0226","U+0227","U+0228","U+0229","U+022A","U+022B","U+022C","U+022D",
    "U+022E","U+022F","U+0230","U+0231","U+0232","U+0233","U+0234","U+0235","U+0236","U+0237",
    "U+0238","U+0239","U+023A","U+023B","U+023C","U+023D","U+023E","U+023F","U+0240","U+0241",
    "U+0242","U+0243","U+0244","U+0245","U+0246","U+0247","U+0248","U+0249","U+024A","U+024B",
    "U+024C","U+024D","U+024E","U+024F","U+0250","U+0251","U+0252","U+0253","U+0254","U+0255",
    "U+0256","U+0257","U+0258","U+0259","U+025A","U+025B","U+025C","U+025D","U+025E","U+025F",
    "U+0260","U+0261","U+0262","U+0263","U+0264","U+0265","U+0266","U+0267","U+0268","U+0269",
    "U+026A","U+026B","U+026C","U+026D","U+026E","U+026F","U+0270","U+0271","U+0272","U+0273",
    "U+0274","U+0275","U+0276","U+0277","U+0278","U+0279","U+027A","U+027B","U+027C","U+027D",
    "U+027E","U+027F","ʀ","ʁ","ʂ","ʃ","ʄ","ʅ","ʆ","ʇ","ʈ","ʉ","ʊ","ʋ","ʌ","ʍ","ʎ","ʏ","ʐ","ʑ",
    "ʒ","ʓ","ʕ","ʖ","ʗ","ʘ","ʙ","ʚ","ʛ","ʜ","ʝ","ʞ","ʟ","ʠ","ʡ","ʢ","ʣ","ʤ","ʥ","ʦ","ʧ","ʨ","ʩ",
    "ʪ","ʫ","ʬ","ʭ","ʮ","ʯ","U+0370","U+0371","U+0372","U+0373","U+0376","U+0377","U+037B",
    "U+037C","U+037D","U+037F","Ά","Έ","Ή","Ί","Ό","Ύ","Ώ","ΐ","Α","Β","Γ","Δ","Ε","Ζ","Η","Θ",
    "Ι","Κ","Λ","Μ","Ν","Ξ","Ο","Π","Ρ","Σ","Τ","Υ","Φ","Χ","Ψ","Ω","Ϊ","Ϋ","ά","έ","ή","ί","ΰ",
    "α","β","γ","δ","ε","ζ","η","θ","ι","κ","λ","μ","ν","ξ","ο","π","ρ","ς","σ","τ","υ","φ","χ",
    "ψ","ω","ϊ","ϋ","ό","ύ","ώ","Ϗ","ϐ","ϑ","ϒ","ϓ","ϔ","ϕ","ϖ","ϗ","Ϙ","ϙ","Ϛ","ϛ","Ϝ","ϝ","Ϟ",
    "ϟ","Ϡ","ϡ","Ϣ","ϣ","Ϥ","ϥ","Ϧ","ϧ","Ϩ","ϩ","Ϫ","ϫ","Ϭ","ϭ","Ϯ","ϯ","ϰ","ϱ","ϲ","ϳ","ϴ","ϵ",
    "Ϸ","ϸ","Ϲ","Ϻ","ϻ","ϼ","Ͻ","Ͼ","Ͽ","U+0400","U+0401","U+0402","U+0403","U+0404","U+0405",
    "U+0406","U+0407","U+0408","U+0409","U+040A","U+040B","U+040C","U+040D","U+040E","U+040F",
    "U+0410","U+0411","U+0412","U+0413","U+0414","U+0415","U+0416","U+0417","U+0418","U+0419",
    "U+041A","U+041B","U+041C","U+041D","U+041E","U+041F","U+0420","U+0421","U+0422","U+0423",
    "U+0424","U+0425","U+0426","U+0427","U+0428","U+0429","U+042A","U+042B","U+042C","U+042D",
    "U+042E","U+042F","U+0430","U+0431","U+0432","U+0433","U+0434","U+0435","U+0436","U+0437",
    "U+0438","U+0439","U+043A","U+043B","U+043C","U+043D","U+043E","U+043F","U+0440","U+0441",
    "U+0442","U+0443","U+0444","U+0445","U+0446","U+0447","U+0448","U+0449","U+044A","U+044B",
    "U+044C","U+044D","U+044E","U+044F","U+0450","U+0451","U+0452","U+0453","U+0454","U+0455",
    "U+0456","U+0457","U+0458","U+0459","U+045A","U+045B","U+045C","U+045D","U+045E","U+045F",
    "U+0460","U+0461","U+0462","U+0463","U+0464","U+0465","U+0466","U+0467","U+0468","U+0469",
    "U+046A","U+046B","U+046C","U+046D","U+046E","U+046F","U+0470","U+0471","U+0472","U+0473",
    "U+0474","U+0475","U+0476","U+0477","U+0478","U+0479","U+047A","U+047B","U+047C","U+047D",
    "U+047E","U+047F","Ҁ","ҁ","Ҋ","ҋ","Ҍ","ҍ","Ҏ","ҏ","Ґ","ґ","Ғ","ғ","Ҕ","ҕ","Җ","җ","Ҙ","ҙ",
    "Қ","қ","Ҝ","ҝ","Ҟ","ҟ","Ҡ","ҡ","Ң","ң","Ҥ","ҥ","Ҧ","ҧ","Ҩ","ҩ","Ҫ","ҫ","Ҭ","ҭ","Ү","ү","Ұ",
    "ұ","Ҳ","ҳ","Ҵ","ҵ","Ҷ","ҷ","Ҹ","ҹ","Һ","һ","Ҽ","ҽ","Ҿ","ҿ","Ӏ","Ӂ","ӂ","Ӄ","ӄ","Ӆ","ӆ","Ӈ",
    "ӈ","Ӊ","ӊ","Ӌ","ӌ","Ӎ","ӎ","ӏ","Ӑ","ӑ","Ӓ","ӓ","Ӕ","ӕ","Ӗ","ӗ","Ә","ә","Ӛ","ӛ","Ӝ","ӝ","Ӟ",
    "ӟ","Ӡ","ӡ","Ӣ","ӣ","Ӥ","ӥ","Ӧ","ӧ","Ө","ө","Ӫ","ӫ","Ӭ","ӭ","Ӯ","ӯ","Ӱ","ӱ","Ӳ","ӳ","Ӵ","ӵ",
    "Ӷ","ӷ","Ӹ","ӹ","Ӻ","ӻ","Ӽ","ӽ","Ӿ","ӿ","U+0500","U+0501","U+0502","U+0503","U+0504",
    "U+0505","U+0506","U+0507","U+0508","U+0509","U+050A","U+050B","U+050C","U+050D","U+050E",
    "U+050F","U+0510","U+0511","U+0512","U+0513","U+0514","U+0515","U+0516","U+0517","U+0518",
    "U+0519","U+051A","U+051B","U+051C","U+051D","U+051E","U+051F","U+0520","U+0521","U+0522",
    "U+0523","U+0524","U+0525","U+0526","U+0527","U+0528","U+0529","U+052A","U+052B","U+052C",
    "U+052D","U+052E","U+052F","U+0531","U+0532","U+0533","U+0534","U+0535","U+0536","U+0537",
    "U+0538","U+0539","U+053A","U+053B","U+053C","U+053D","U+053E","U+053F","U+0540","U+0541",
    "U+0542","U+0543","U+0544","U+0545","U+0546","U+0547","U+0548","U+0549","U+054A","U+054B",
    "U+054C","U+054D","U+054E","U+054F","U+0550","U+0551","U+0552","U+0553","U+0554","U+0555",
    "U+0556","U+0560","U+0561","U+0562","U+0563","U+0564","U+0565","U+0566","U+0567","U+0568",
    "U+0569","U+056A","U+056B","U+056C","U+056D","U+056E","U+056F","U+0570","U+0571","U+0572",
    "U+0573","U+0574","U+0575","U+0576","U+0577","U+0578","U+0579","U+057A","U+057B","U+057C",
    "U+057D","U+057E","U+057F","ր","ց","ւ","փ","ք","օ","ֆ","և","ֈ","Ⴀ","Ⴁ","Ⴂ","Ⴃ","Ⴄ","Ⴅ","Ⴆ",
    "Ⴇ","Ⴈ","Ⴉ","Ⴊ","Ⴋ","Ⴌ","Ⴍ","Ⴎ","Ⴏ","Ⴐ","Ⴑ","Ⴒ","Ⴓ","Ⴔ","Ⴕ","Ⴖ","Ⴗ","Ⴘ","Ⴙ","Ⴚ","Ⴛ","Ⴜ","Ⴝ",
    "Ⴞ","Ⴟ","Ⴠ","Ⴡ","Ⴢ","Ⴣ","Ⴤ","Ⴥ","Ⴧ","Ⴭ","ა","ბ","გ","დ","ე","ვ","ზ","თ","ი","კ","ლ","მ","ნ",
    "ო","პ","ჟ","რ","ს","ტ","უ","ფ","ქ","ღ","ყ","შ","ჩ","ც","ძ","წ","ჭ","ხ","ჯ","ჰ","ჱ","ჲ","ჳ",
    "ჴ","ჵ","ჶ","ჷ","ჸ","ჹ","ჺ","ჽ","ჾ","ჿ","Ꭰ","Ꭱ","Ꭲ","Ꭳ","Ꭴ","Ꭵ","Ꭶ","Ꭷ","Ꭸ","Ꭹ","Ꭺ","Ꭻ","Ꭼ",
    "Ꭽ","Ꭾ","Ꭿ","Ꮀ","Ꮁ","Ꮂ","Ꮃ","Ꮄ","Ꮅ","Ꮆ","Ꮇ","Ꮈ","Ꮉ","Ꮊ","Ꮋ","Ꮌ","Ꮍ","Ꮎ","Ꮏ","Ꮐ","Ꮑ","Ꮒ","Ꮓ",
    "Ꮔ","Ꮕ","Ꮖ","Ꮗ","Ꮘ","Ꮙ","Ꮚ","Ꮛ","Ꮜ","Ꮝ","Ꮞ","Ꮟ","Ꮠ","Ꮡ","Ꮢ","Ꮣ","Ꮤ","Ꮥ","Ꮦ","Ꮧ","Ꮨ","Ꮩ","Ꮪ",
    "Ꮫ","Ꮬ","Ꮭ","Ꮮ","Ꮯ","Ꮰ","Ꮱ","Ꮲ","Ꮳ","Ꮴ","Ꮵ","Ꮶ","Ꮷ","Ꮸ","Ꮹ","Ꮺ","Ꮻ","Ꮼ","Ꮽ","Ꮾ","Ꮿ","Ᏸ","Ᏹ",
    "Ᏺ","Ᏻ","Ᏼ","Ᏽ","ᏸ","ᏹ","ᏺ","ᏻ","ᏼ","ᏽ","ᲀ","ᲁ","ᲂ","ᲃ","ᲄ","ᲅ","ᲆ","ᲇ","ᲈ","Ა","Ბ","Გ","Დ",
    "Ე","Ვ","Ზ","Თ","Ი","Კ","Ლ","Მ","Ნ","Ო","Პ","Ჟ","Რ","Ს","Ტ","Უ","Ფ","Ქ","Ღ","Ყ","Შ","Ჩ","Ც",
    "Ძ","Წ","Ჭ","Ხ","Ჯ","Ჰ","Ჱ","Ჲ","Ჳ","Ჴ","Ჵ","Ჶ","Ჷ","Ჸ","Ჹ","Ჺ","Ჽ","Ჾ","Ჿ","U+1D00",
    "U+1D01","U+1D02","U+1D03","U+1D04","U+1D05","U+1D06","U+1D07","U+1D08","U+1D09","U+1D0A",
    "U+1D0B","U+1D0C","U+1D0D","U+1D0E","U+1D0F","U+1D10","U+1D11","U+1D12","U+1D13","U+1D14",
    "U+1D15","U+1D16","U+1D17","U+1D18","U+1D19","U+1D1A","U+1D1B","U+1D1C","U+1D1D","U+1D1E",
    "U+1D1F","U+1D20","U+1D21","U+1D22","U+1D23","U+1D24","U+1D25","U+1D26","U+1D27","U+1D28",
    "U+1D29","U+1D2A","U+1D2B","U+1D6B","U+1D6C","U+1D6D","U+1D6E","U+1D6F","U+1D70","U+1D71",
    "U+1D72","U+1D73","U+1D74","U+1D75","U+1D76","U+1D77","U+1D79","U+1D7A","U+1D7B","U+1D7C",
    "U+1D7D","U+1D7E","U+1D7F","ᶀ","ᶁ","ᶂ","ᶃ","ᶄ","ᶅ","ᶆ","ᶇ","ᶈ","ᶉ","ᶊ","ᶋ","ᶌ","ᶍ","ᶎ","ᶏ",
    "ᶐ","ᶑ","ᶒ","ᶓ","ᶔ","ᶕ","ᶖ","ᶗ","ᶘ","ᶙ","ᶚ","U+1E00","U+1E01","U+1E02","U+1E03","U+1E04",
    "U+1E05","U+1E06","U+1E07","U+1E08","U+1E09","U+1E0A","U+1E0B","U+1E0C","U+1E0D","U+1E0E",
    "U+1E0F","U+1E10","U+1E11","U+1E12","U+1E13","U+1E14","U+1E15","U+1E16","U+1E17","U+1E18",
    "U+1E19","U+1E1A","U+1E1B","U+1E1C","U+1E1D","U+1E1E","U+1E1F","U+1E20","U+1E21","U+1E22",
    "U+1E23","U+1E24","U+1E25","U+1E26","U+1E27","U+1E28","U+1E29","U+1E2A","U+1E2B","U+1E2C",
    "U+1E2D","U+1E2E","U+1E2F","U+1E30","U+1E31","U+1E32","U+1E33","U+1E34","U+1E35","U+1E36",
    "U+1E37","U+1E38","U+1E39","U+1E3A","U+1E3B","U+1E3C","U+1E3D","U+1E3E","U+1E3F","U+1E40",
    "U+1E41","U+1E42","U+1E43","U+1E44","U+1E45","U+1E46","U+1E47","U+1E48","U+1E49","U+1E4A",
    "U+1E4B","U+1E4C","U+1E4D","U+1E4E","U+1E4F","U+1E50","U+1E51","U+1E52","U+1E53","U+1E54",
    "U+1E55","U+1E56","U+1E57","U+1E58","U+1E59","U+1E5A","U+1E5B","U+1E5C","U+1E5D","U+1E5E",
    "U+1E5F","U+1E60","U+1E61","U+1E62","U+1E63","U+1E64","U+1E65","U+1E66","U+1E67","U+1E68",
    "U+1E69","U+1E6A","U+1E6B","U+1E6C","U+1E6D","U+1E6E","U+1E6F","U+1E70","U+1E71","U+1E72",
    "U+1E73","U+1E74","U+1E75","U+1E76","U+1E77","U+1E78","U+1E79","U+1E7A","U+1E7B","U+1E7C",
    "U+1E7D","U+1E7E","U+1E7F","Ẁ","ẁ","Ẃ","ẃ","Ẅ","ẅ","Ẇ","ẇ","Ẉ","ẉ","Ẋ","ẋ","Ẍ","ẍ","Ẏ","ẏ",
    "Ẑ","ẑ","Ẓ","ẓ","Ẕ","ẕ","ẖ","ẗ","ẘ","ẙ","ẚ","ẛ","ẜ","ẝ","ẞ","ẟ","Ạ","ạ","Ả","ả","Ấ","ấ","Ầ",
    "ầ","Ẩ","ẩ","Ẫ","ẫ","Ậ","ậ","Ắ","ắ","Ằ","ằ","Ẳ","ẳ","Ẵ","ẵ","Ặ","ặ","Ẹ","ẹ","Ẻ","ẻ","Ẽ","ẽ",
    "Ế","ế","Ề","ề","Ể","ể","Ễ","ễ","Ệ","ệ","Ỉ","ỉ","Ị","ị","Ọ","ọ","Ỏ","ỏ","Ố","ố","Ồ","ồ","Ổ",
    "ổ","Ỗ","ỗ","Ộ","ộ","Ớ","ớ","Ờ","ờ","Ở","ở","Ỡ","ỡ","Ợ","ợ","Ụ","ụ","Ủ","ủ","Ứ","ứ","Ừ","ừ",
    "Ử","ử","Ữ","ữ","Ự","ự","Ỳ","ỳ","Ỵ","ỵ","Ỷ","ỷ","Ỹ","ỹ","Ỻ","ỻ","Ỽ","ỽ","Ỿ","ỿ","U+1F00",
    "U+1F01","U+1F02","U+1F03","U+1F04","U+1F05","U+1F06","U+1F07","U+1F08","U+1F09","U+1F0A",
    "U+1F0B","U+1F0C","U+1F0D","U+1F0E","U+1F0F","U+1F10","U+1F11","U+1F12","U+1F13","U+1F14",
    "U+1F15","U+1F18","U+1F19","U+1F1A","U+1F1B","U+1F1C","U+1F1D","U+1F20","U+1F21","U+1F22",
    "U+1F23","U+1F24","U+1F25","U+1F26","U+1F27","U+1F28","U+1F29","U+1F2A","U+1F2B","U+1F2C",
    "U+1F2D","U+1F2E","U+1F2F","U+1F30","U+1F31","U+1F32","U+1F33","U+1F34","U+1F35","U+1F36",
    "U+1F37","U+1F38","U+1F39","U+1F3A","U+1F3B","U+1F3C","U+1F3D","U+1F3E","U+1F3F","U+1F40",
    "U+1F41","U+1F42","U+1F43","U+1F44","U+1F45","U+1F48","U+1F49","U+1F4A","U+1F4B","U+1F4C",
    "U+1F4D","U+1F50","U+1F51","U+1F52","U+1F53","U+1F54","U+1F55","U+1F56","U+1F57","U+1F59",
    "U+1F5B","U+1F5D","U+1F5F","U+1F60","U+1F61","U+1F62","U+1F63","U+1F64","U+1F65","U+1F66",
    "U+1F67","U+1F68","U+1F69","U+1F6A","U+1F6B","U+1F6C","U+1F6D","U+1F6E","U+1F6F","U+1F70",
    "U+1F71","U+1F72","U+1F73","U+1F74","U+1F75","U+1F76","U+1F77","U+1F78","U+1F79","U+1F7A",
    "U+1F7B","U+1F7C","U+1F7D","ᾀ","ᾁ","ᾂ","ᾃ","ᾄ","ᾅ","ᾆ","ᾇ","ᾈ","ᾉ","ᾊ","ᾋ","ᾌ","ᾍ","ᾎ","ᾏ",
    "ᾐ","ᾑ","ᾒ","ᾓ","ᾔ","ᾕ","ᾖ","ᾗ","ᾘ","ᾙ","ᾚ","ᾛ","ᾜ","ᾝ","ᾞ","ᾟ","ᾠ","ᾡ","ᾢ","ᾣ","ᾤ","ᾥ","ᾦ",
    "ᾧ","ᾨ","ᾩ","ᾪ","ᾫ","ᾬ","ᾭ","ᾮ","ᾯ","ᾰ","ᾱ","ᾲ","ᾳ","ᾴ","ᾶ","ᾷ","Ᾰ","Ᾱ","Ὰ","Ά","ᾼ","ι","ῂ",
    "ῃ","ῄ","ῆ","ῇ","Ὲ","Έ","Ὴ","Ή","ῌ","ῐ","ῑ","ῒ","ΐ","ῖ","ῗ","Ῐ","Ῑ","Ὶ","Ί","ῠ","ῡ","ῢ","ΰ",
    "ῤ","ῥ","ῦ","ῧ","Ῠ","Ῡ","Ὺ","Ύ","Ῥ","ῲ","ῳ","ῴ","ῶ","ῷ","Ὸ","Ό","Ὼ","Ώ","ῼ","U+2102",
    "U+2107","U+210A","U+210B","U+210C","U+210D","U+210E","U+210F","U+2110","U+2111","U+2112",
    "U+2113","U+2115","U+2119","U+211A","U+211B","U+211C","U+211D","U+2124","U+2126","U+2128",
    "U+212A","U+212B","U+212C","U+212D","U+212F","U+2130","U+2131","U+2132","U+2133","U+2134",
    "U+2139","U+213C","U+213D","U+213E","U+213F","U+2145","U+2146","U+2147","U+2148","U+2149",
    "U+214E","U+2160","U+2161","U+2162","U+2163","U+2164","U+2165","U+2166","U+2167","U+2168",
    "U+2169","U+216A","U+216B","U+216C","U+216D","U+216E","U+216F","U+2170","U+2171","U+2172",
    "U+2173","U+2174","U+2175","U+2176","U+2177","U+2178","U+2179","U+217A","U+217B","U+217C",
    "U+217D","U+217E","U+217F","Ↄ","ↄ","Ⓐ","Ⓑ","Ⓒ","Ⓓ","Ⓔ","Ⓕ","Ⓖ","Ⓗ","Ⓘ","Ⓙ","Ⓚ","Ⓛ","Ⓜ","Ⓝ",
    "Ⓞ","Ⓟ","Ⓠ","Ⓡ","Ⓢ","Ⓣ","Ⓤ","Ⓥ","Ⓦ","Ⓧ","Ⓨ","Ⓩ","ⓐ","ⓑ","ⓒ","ⓓ","ⓔ","ⓕ","ⓖ","ⓗ","ⓘ","ⓙ","ⓚ",
    "ⓛ","ⓜ","ⓝ","ⓞ","ⓟ","ⓠ","ⓡ","ⓢ","ⓣ","ⓤ","ⓥ","ⓦ","ⓧ","ⓨ","ⓩ","U+2C00","U+2C01","U+2C02",
    "U+2C03","U+2C04","U+2C05","U+2C06","U+2C07","U+2C08","U+2C09","U+2C0A","U+2C0B","U+2C0C",
    "U+2C0D","U+2C0E","U+2C0F","U+2C10","U+2C11","U+2C12","U+2C13","U+2C14","U+2C15","U+2C16",
    "U+2C17","U+2C18","U+2C19","U+2C1A","U+2C1B","U+2C1C","U+2C1D","U+2C1E","U+2C1F","U+2C20",
    "U+2C21","U+2C22","U+2C23","U+2C24","U+2C25","U+2C26","U+2C27","U+2C28","U+2C29","U+2C2A",
    "U+2C2B","U+2C2C","U+2C2D","U+2C2E","U+2C2F","U+2C30","U+2C31","U+2C32","U+2C33","U+2C34",
    "U+2C35","U+2C36","U+2C37","U+2C38","U+2C39","U+2C3A","U+2C3B","U+2C3C","U+2C3D","U+2C3E",
    "U+2C3F","U+2C40","U+2C41","U+2C42","U+2C43","U+2C44","U+2C45","U+2C46","U+2C47","U+2C48",
    "U+2C49","U+2C4A","U+2C4B","U+2C4C","U+2C4D","U+2C4E","U+2C4F","U+2C50","U+2C51","U+2C52",
    "U+2C53","U+2C54","U+2C55","U+2C56","U+2C57","U+2C58","U+2C59","U+2C5A","U+2C5B","U+2C5C",
    "U+2C5D","U+2C5E","U+2C5F","U+2C60","U+2C61","U+2C62","U+2C63","U+2C64","U+2C65","U+2C66",
    "U+2C67","U+2C68","U+2C69","U+2C6A","U+2C6B","U+2C6C","U+2C6D","U+2C6E","U+2C6F","U+2C70",
    "U+2C71","U+2C72","U+2C73","U+2C74","U+2C75","U+2C76","U+2C77","U+2C78","U+2C79","U+2C7A",
    "U+2C7B","U+2C7E","U+2C7F","Ⲁ","ⲁ","Ⲃ","ⲃ","Ⲅ","ⲅ","Ⲇ","ⲇ","Ⲉ","ⲉ","Ⲋ","ⲋ","Ⲍ","ⲍ","Ⲏ","ⲏ",
    "Ⲑ","ⲑ","Ⲓ","ⲓ","Ⲕ","ⲕ","Ⲗ","ⲗ","Ⲙ","ⲙ","Ⲛ","ⲛ","Ⲝ","ⲝ","Ⲟ","ⲟ","Ⲡ","ⲡ","Ⲣ","ⲣ","Ⲥ","ⲥ","Ⲧ",
    "ⲧ","Ⲩ","ⲩ","Ⲫ","ⲫ","Ⲭ","ⲭ","Ⲯ","ⲯ","Ⲱ","ⲱ","Ⲳ","ⲳ","Ⲵ","ⲵ","Ⲷ","ⲷ","Ⲹ","ⲹ","Ⲻ","ⲻ","Ⲽ","ⲽ",
    "Ⲿ","ⲿ","Ⳁ","ⳁ","Ⳃ","ⳃ","Ⳅ","ⳅ","Ⳇ","ⳇ","Ⳉ","ⳉ","Ⳋ","ⳋ","Ⳍ","ⳍ","Ⳏ","ⳏ","Ⳑ","ⳑ","Ⳓ","ⳓ","Ⳕ",
    "ⳕ","Ⳗ","ⳗ","Ⳙ","ⳙ","Ⳛ","ⳛ","Ⳝ","ⳝ","Ⳟ","ⳟ","Ⳡ","ⳡ","Ⳣ","ⳣ","ⳤ","Ⳬ","ⳬ","Ⳮ","ⳮ","Ⳳ","ⳳ",
    "U+2D00","U+2D01","U+2D02","U+2D03","U+2D04","U+2D05","U+2D06","U+2D07","U+2D08","U+2D09",
    "U+2D0A","U+2D0B","U+2D0C","U+2D0D","U+2D0E","U+2D0F","U+2D10","U+2D11","U+2D12","U+2D13",
    "U+2D14","U+2D15","U+2D16","U+2D17","U+2D18","U+2D19","U+2D1A","U+2D1B","U+2D1C","U+2D1D",
    "U+2D1E","U+2D1F","U+2D20","U+2D21","U+2D22","U+2D23","U+2D24","U+2D25","U+2D27","U+2D2D",
    "U+A640","U+A641","U+A642","U+A643","U+A644","U+A645","U+A646","U+A647","U+A648","U+A649",
    "U+A64A","U+A64B","U+A64C","U+A64D","U+A64E","U+A64F","U+A650","U+A651","U+A652","U+A653",
    "U+A654","U+A655","U+A656","U+A657","U+A658","U+A659","U+A65A","U+A65B","U+A65C","U+A65D",
    "U+A65E","U+A65F","U+A660","U+A661","U+A662","U+A663","U+A664","U+A665","U+A666","U+A667",
    "U+A668","U+A669","U+A66A","U+A66B","U+A66C","U+A66D","Ꚁ","ꚁ","Ꚃ","ꚃ","Ꚅ","ꚅ","Ꚇ","ꚇ","Ꚉ",
    "ꚉ","Ꚋ","ꚋ","Ꚍ","ꚍ","Ꚏ","ꚏ","Ꚑ","ꚑ","Ꚓ","ꚓ","Ꚕ","ꚕ","Ꚗ","ꚗ","Ꚙ","ꚙ","Ꚛ","ꚛ","U+A722",
    "U+A723","U+A724","U+A725","U+A726","U+A727","U+A728","U+A729","U+A72A","U+A72B","U+A72C",
    "U+A72D","U+A72E","U+A72F","U+A730","U+A731","U+A732","U+A733","U+A734","U+A735","U+A736",
    "U+A737","U+A738","U+A739","U+A73A","U+A73B","U+A73C","U+A73D","U+A73E","U+A73F","U+A740",
    "U+A741","U+A742","U+A743","U+A744","U+A745","U+A746","U+A747","U+A748","U+A749","U+A74A",
    "U+A74B","U+A74C","U+A74D","U+A74E","U+A74F","U+A750","U+A751","U+A752","U+A753","U+A754",
    "U+A755","U+A756","U+A757","U+A758","U+A759","U+A75A","U+A75B","U+A75C","U+A75D","U+A75E",
    "U+A75F","U+A760","U+A761","U+A762","U+A763","U+A764","U+A765","U+A766","U+A767","U+A768",
    "U+A769","U+A76A","U+A76B","U+A76C","U+A76D","U+A76E","U+A76F","U+A771","U+A772","U+A773",
    "U+A774","U+A775","U+A776","U+A777","U+A778","U+A779","U+A77A","U+A77B","U+A77C","U+A77D",
    "U+A77E","U+A77F","Ꞁ","ꞁ","Ꞃ","ꞃ","Ꞅ","ꞅ","Ꞇ","ꞇ","Ꞌ","ꞌ","Ɥ","ꞎ","Ꞑ","ꞑ","Ꞓ","ꞓ","ꞔ","ꞕ",
    "Ꞗ","ꞗ","Ꞙ","ꞙ","Ꞛ","ꞛ","Ꞝ","ꞝ","Ꞟ","ꞟ","Ꞡ","ꞡ","Ꞣ","ꞣ","Ꞥ","ꞥ","Ꞧ","ꞧ","Ꞩ","ꞩ","Ɦ","Ɜ","Ɡ",
    "Ɬ","Ɪ","ꞯ","Ʞ","Ʇ","Ʝ","Ꭓ","Ꞵ","ꞵ","Ꞷ","ꞷ","Ꞹ","ꞹ","Ꞻ","ꞻ","Ꞽ","ꞽ","Ꞿ","ꞿ","Ꟁ","ꟁ","Ꟃ","ꟃ",
    "Ꞔ","Ʂ","Ᶎ","Ꟈ","ꟈ","Ꟊ","ꟊ","Ꟑ","ꟑ","ꟓ","ꟕ","Ꟗ","ꟗ","Ꟙ","ꟙ","Ꟶ","ꟶ","ꟺ","U+AB30","U+AB31",
    "U+AB32","U+AB33","U+AB34","U+AB35","U+AB36","U+AB37","U+AB38","U+AB39","U+AB3A","U+AB3B",
    "U+AB3C","U+AB3D","U+AB3E","U+AB3F","U+AB40","U+AB41","U+AB42","U+AB43","U+AB44","U+AB45",
    "U+AB46","U+AB47","U+AB48","U+AB49","U+AB4A","U+AB4B","U+AB4C","U+AB4D","U+AB4E","U+AB4F",
    "U+AB50","U+AB51","U+AB52","U+AB53","U+AB54","U+AB55","U+AB56","U+AB57","U+AB58","U+AB59",
    "U+AB5A","U+AB60","U+AB61","U+AB62","U+AB63","U+AB64","U+AB65","U+AB66","U+AB67","U+AB68",
    "U+AB70","U+AB71","U+AB72","U+AB73","U+AB74","U+AB75","U+AB76","U+AB77","U+AB78","U+AB79",
    "U+AB7A","U+AB7B","U+AB7C","U+AB7D","U+AB7E","U+AB7F","ꮀ","ꮁ","ꮂ","ꮃ","ꮄ","ꮅ","ꮆ","ꮇ","ꮈ",
    "ꮉ","ꮊ","ꮋ","ꮌ","ꮍ","ꮎ","ꮏ","ꮐ","ꮑ","ꮒ","ꮓ","ꮔ","ꮕ","ꮖ","ꮗ","ꮘ","ꮙ","ꮚ","ꮛ","ꮜ","ꮝ","ꮞ","ꮟ",
    "ꮠ","ꮡ","ꮢ","ꮣ","ꮤ","ꮥ","ꮦ","ꮧ","ꮨ","ꮩ","ꮪ","ꮫ","ꮬ","ꮭ","ꮮ","ꮯ","ꮰ","ꮱ","ꮲ","ꮳ","ꮴ","ꮵ","ꮶ",
    "ꮷ","ꮸ","ꮹ","ꮺ","ꮻ","ꮼ","ꮽ","ꮾ","ꮿ","U+FB00","U+FB01","U+FB02","U+FB03","U+FB04","U+FB05",
    "U+FB06","U+FB13","U+FB14","U+FB15","U+FB16","U+FB17","U+FF21","U+FF22","U+FF23","U+FF24",
    "U+FF25","U+FF26","U+FF27","U+FF28","U+FF29","U+FF2A","U+FF2B","U+FF2C","U+FF2D","U+FF2E",
    "U+FF2F","U+FF30","U+FF31","U+FF32","U+FF33","U+FF34","U+FF35","U+FF36","U+FF37","U+FF38",
    "U+FF39","U+FF3A","U+FF41","U+FF42","U+FF43","U+FF44","U+FF45","U+FF46","U+FF47","U+FF48",
    "U+FF49","U+FF4A","U+FF4B","U+FF4C","U+FF4D","U+FF4E","U+FF4F","U+FF50","U+FF51","U+FF52",
    "U+FF53","U+FF54","U+FF55","U+FF56","U+FF57","U+FF58","U+FF59","U+FF5A","U+10400","U+10401",
    "U+10402","U+10403","U+10404","U+10405","U+10406","U+10407","U+10408","U+10409","U+1040A",
    "U+1040B","U+1040C","U+1040D","U+1040E","U+1040F","U+10410","U+10411","U+10412","U+10413",
    "U+10414","U+10415","U+10416","U+10417","U+10418","U+10419","U+1041A","U+1041B","U+1041C",
    "U+1041D","U+1041E","U+1041F","U+10420","U+10421","U+10422","U+10423","U+10424","U+10425",
    "U+10426","U+10427","U+10428","U+10429","U+1042A","U+1042B","U+1042C","U+1042D","U+1042E",
    "U+1042F","U+10430","U+10431","U+10432","U+10433","U+10434","U+10435","U+10436","U+10437",
    "U+10438","U+10439","U+1043A","U+1043B","U+1043C","U+1043D","U+1043E","U+1043F","U+10440",
    "U+10441","U+10442","U+10443","U+10444","U+10445","U+10446","U+10447","U+10448","U+10449",
    "U+1044A","U+1044B","U+1044C","U+1044D","U+1044E","U+1044F","U+104B0","U+104B1","U+104B2",
    "U+104B3","U+104B4","U+104B5","U+104B6","U+104B7","U+104B8","U+104B9","U+104BA","U+104BB",
    "U+104BC","U+104BD","U+104BE","U+104BF","U+104C0","U+104C1","U+104C2","U+104C3","U+104C4",
    "U+104C5","U+104C6","U+104C7","U+104C8","U+104C9","U+104CA","U+104CB","U+104CC","U+104CD",
    "U+104CE","U+104CF","U+104D0","U+104D1","U+104D2","U+104D3","U+104D8","U+104D9","U+104DA",
    "U+104DB","U+104DC","U+104DD","U+104DE","U+104DF","U+104E0","U+104E1","U+104E2","U+104E3",
    "U+104E4","U+104E5","U+104E6","U+104E7","U+104E8","U+104E9","U+104EA","U+104EB","U+104EC",
    "U+104ED","U+104EE","U+104EF","U+104F0","U+104F1","U+104F2","U+104F3","U+104F4","U+104F5",
    "U+104F6","U+104F7","U+104F8","U+104F9","U+104FA","U+104FB","U+10570","U+10571","U+10572",
    "U+10573","U+10574","U+10575","U+10576","U+10577","U+10578","U+10579","U+1057A","U+1057C",
    "U+1057D","U+1057E","U+1057F","U+10580","U+10581","U+10582","U+10583","U+10584","U+10585",
    "U+10586","U+10587","U+10588","U+10589","U+1058A","U+1058C","U+1058D","U+1058E","U+1058F",
    "U+10590","U+10591","U+10592","U+10594","U+10595","U+10597","U+10598","U+10599","U+1059A",
    "U+1059B","U+1059C","U+1059D","U+1059E","U+1059F","U+105A0","U+105A1","U+105A3","U+105A4",
    "U+105A5","U+105A6","U+105A7","U+105A8","U+105A9","U+105AA","U+105AB","U+105AC","U+105AD",
    "U+105AE","U+105AF","U+105B0","U+105B1","U+105B3","U+105B4","U+105B5","U+105B6","U+105B7",
    "U+105B8","U+105B9","U+105BB","U+105BC","U+10C80","U+10C81","U+10C82","U+10C83","U+10C84",
    "U+10C85","U+10C86","U+10C87","U+10C88","U+10C89","U+10C8A","U+10C8B","U+10C8C","U+10C8D",
    "U+10C8E","U+10C8F","U+10C90","U+10C91","U+10C92","U+10C93","U+10C94","U+10C95","U+10C96",
    "U+10C97","U+10C98","U+10C99","U+10C9A","U+10C9B","U+10C9C","U+10C9D","U+10C9E","U+10C9F",
    "U+10CA0","U+10CA1","U+10CA2","U+10CA3","U+10CA4","U+10CA5","U+10CA6","U+10CA7","U+10CA8",
    "U+10CA9","U+10CAA","U+10CAB","U+10CAC","U+10CAD","U+10CAE","U+10CAF","U+10CB0","U+10CB1",
    "U+10CB2","U+10CC0","U+10CC1","U+10CC2","U+10CC3","U+10CC4","U+10CC5","U+10CC6","U+10CC7",
    "U+10CC8","U+10CC9","U+10CCA","U+10CCB","U+10CCC","U+10CCD","U+10CCE","U+10CCF","U+10CD0",
    "U+10CD1","U+10CD2","U+10CD3","U+10CD4","U+10CD5","U+10CD6","U+10CD7","U+10CD8","U+10CD9",
    "U+10CDA","U+10CDB","U+10CDC","U+10CDD","U+10CDE","U+10CDF","U+10CE0","U+10CE1","U+10CE2",
    "U+10CE3","U+10CE4","U+10CE5","U+10CE6","U+10CE7","U+10CE8","U+10CE9","U+10CEA","U+10CEB",
    "U+10CEC","U+10CED","U+10CEE","U+10CEF","U+10CF0","U+10CF1","U+10CF2","U+118A0","U+118A1",
    "U+118A2","U+118A3","U+118A4","U+118A5","U+118A6","U+118A7","U+118A8","U+118A9","U+118AA",
    "U+118AB","U+118AC","U+118AD","U+118AE","U+118AF","U+118B0","U+118B1","U+118B2","U+118B3",
    "U+118B4","U+118B5","U+118B6","U+118B7","U+118B8","U+118B9","U+118BA","U+118BB","U+118BC",
    "U+118BD","U+118BE","U+118BF","U+118C0","U+118C1","U+118C2","U+118C3","U+118C4","U+118C5",
    "U+118C6","U+118C7","U+118C8","U+118C9","U+118CA","U+118CB","U+118CC","U+118CD","U+118CE",
    "U+118CF","U+118D0","U+118D1","U+118D2","U+118D3","U+118D4","U+118D5","U+118D6","U+118D7",
    "U+118D8","U+118D9","U+118DA","U+118DB","U+118DC","U+118DD","U+118DE","U+118DF","U+16E40",
    "U+16E41","U+16E42","U+16E43","U+16E44","U+16E45","U+16E46","U+16E47","U+16E48","U+16E49",
    "U+16E4A","U+16E4B","U+16E4C","U+16E4D","U+16E4E","U+16E4F","U+16E50","U+16E51","U+16E52",
    "U+16E53","U+16E54","U+16E55","U+16E56","U+16E57","U+16E58","U+16E59","U+16E5A","U+16E5B",
    "U+16E5C","U+16E5D","U+16E5E","U+16E5F","U+16E60","U+16E61","U+16E62","U+16E63","U+16E64",
    "U+16E65","U+16E66","U+16E67","U+16E68","U+16E69","U+16E6A","U+16E6B","U+16E6C","U+16E6D",
    "U+16E6E","U+16E6F","U+16E70","U+16E71","U+16E72","U+16E73","U+16E74","U+16E75","U+16E76",
    "U+16E77","U+16E78","U+16E79","U+16E7A","U+16E7B","U+16E7C","U+16E7D","U+16E7E","U+16E7F",
    "U+1D400","U+1D401","U+1D402","U+1D403","U+1D404","U+1D405","U+1D406","U+1D407","U+1D408",
    "U+1D409","U+1D40A","U+1D40B","U+1D40C","U+1D40D","U+1D40E","U+1D40F","U+1D410","U+1D411",
    "U+1D412","U+1D413","U+1D414","U+1D415","U+1D416","U+1D417","U+1D418","U+1D419","U+1D41A",
    "U+1D41B","U+1D41C","U+1D41D","U+1D41E","U+1D41F","U+1D420","U+1D421","U+1D422","U+1D423",
    "U+1D424","U+1D425","U+1D426","U+1D427","U+1D428","U+1D429","U+1D42A","U+1D42B","U+1D42C",
    "U+1D42D","U+1D42E","U+1D42F","U+1D430","U+1D431","U+1D432","U+1D433","U+1D434","U+1D435",
    "U+1D436","U+1D437","U+1D438","U+1D439","U+1D43A","U+1D43B","U+1D43C","U+1D43D","U+1D43E",
    "U+1D43F","U+1D440","U+1D441","U+1D442","U+1D443","U+1D444","U+1D445","U+1D446","U+1D447",
    "U+1D448","U+1D449","U+1D44A","U+1D44B","U+1D44C","U+1D44D","U+1D44E","U+1D44F","U+1D450",
    "U+1D451","U+1D452","U+1D453","U+1D454","U+1D456","U+1D457","U+1D458","U+1D459","U+1D45A",
    "U+1D45B","U+1D45C","U+1D45D","U+1D45E","U+1D45F","U+1D460","U+1D461","U+1D462","U+1D463",
    "U+1D464","U+1D465","U+1D466","U+1D467","U+1D468","U+1D469","U+1D46A","U+1D46B","U+1D46C",
    "U+1D46D","U+1D46E","U+1D46F","U+1D470","U+1D471","U+1D472","U+1D473","U+1D474","U+1D475",
    "U+1D476","U+1D477","U+1D478","U+1D479","U+1D47A","U+1D47B","U+1D47C","U+1D47D","U+1D47E",
    "U+1D47F","U+1D480","U+1D481","U+1D482","U+1D483","U+1D484","U+1D485","U+1D486","U+1D487",
    "U+1D488","U+1D489","U+1D48A","U+1D48B","U+1D48C","U+1D48D","U+1D48E","U+1D48F","U+1D490",
    "U+1D491","U+1D492","U+1D493","U+1D494","U+1D495","U+1D496","U+1D497","U+1D498","U+1D499",
    "U+1D49A","U+1D49B","U+1D49C","U+1D49E","U+1D49F","U+1D4A2","U+1D4A5","U+1D4A6","U+1D4A9",
    "U+1D4AA","U+1D4AB","U+1D4AC","U+1D4AE","U+1D4AF","U+1D4B0","U+1D4B1","U+1D4B2","U+1D4B3",
    "U+1D4B4","U+1D4B5","U+1D4B6","U+1D4B7","U+1D4B8","U+1D4B9","U+1D4BB","U+1D4BD","U+1D4BE",
    "U+1D4BF","U+1D4C0","U+1D4C1","U+1D4C2","U+1D4C3","U+1D4C5","U+1D4C6","U+1D4C7","U+1D4C8",
    "U+1D4C9","U+1D4CA","U+1D4CB","U+1D4CC","U+1D4CD","U+1D4CE","U+1D4CF","U+1D4D0","U+1D4D1",
    "U+1D4D2","U+1D4D3","U+1D4D4","U+1D4D5","U+1D4D6","U+1D4D7","U+1D4D8","U+1D4D9","U+1D4DA",
    "U+1D4DB","U+1D4DC","U+1D4DD","U+1D4DE","U+1D4DF","U+1D4E0","U+1D4E1","U+1D4E2","U+1D4E3",
    "U+1D4E4","U+1D4E5","U+1D4E6","U+1D4E7","U+1D4E8","U+1D4E9","U+1D4EA","U+1D4EB","U+1D4EC",
    "U+1D4ED","U+1D4EE","U+1D4EF","U+1D4F0","U+1D4F1","U+1D4F2","U+1D4F3","U+1D4F4","U+1D4F5",
    "U+1D4F6","U+1D4F7","U+1D4F8","U+1D4F9","U+1D4FA","U+1D4FB","U+1D4FC","U+1D4FD","U+1D4FE",
    "U+1D4FF","U+1D500","U+1D501","U+1D502","U+1D503","U+1D504","U+1D505","U+1D507","U+1D508",
    "U+1D509","U+1D50A","U+1D50D","U+1D50E","U+1D50F","U+1D510","U+1D511","U+1D512","U+1D513",
    "U+1D514","U+1D516","U+1D517","U+1D518","U+1D519","U+1D51A","U+1D51B","U+1D51C","U+1D51E",
    "U+1D51F","U+1D520","U+1D521","U+1D522","U+1D523","U+1D524","U+1D525","U+1D526","U+1D527",
    "U+1D528","U+1D529","U+1D52A","U+1D52B","U+1D52C","U+1D52D","U+1D52E","U+1D52F","U+1D530",
    "U+1D531","U+1D532","U+1D533","U+1D534","U+1D535","U+1D536","U+1D537","U+1D538","U+1D539",
    "U+1D53B","U+1D53C","U+1D53D","U+1D53E","U+1D540","U+1D541","U+1D542","U+1D543","U+1D544",
    "U+1D546","U+1D54A","U+1D54B","U+1D54C","U+1D54D","U+1D54E","U+1D54F","U+1D550","U+1D552",
    "U+1D553","U+1D554","U+1D555","U+1D556","U+1D557","U+1D558","U+1D559","U+1D55A","U+1D55B",
    "U+1D55C","U+1D55D","U+1D55E","U+1D55F","U+1D560","U+1D561","U+1D562","U+1D563","U+1D564",
    "U+1D565","U+1D566","U+1D567","U+1D568","U+1D569","U+1D56A","U+1D56B","U+1D56C","U+1D56D",
    "U+1D56E","U+1D56F","U+1D570","U+1D571","U+1D572","U+1D573","U+1D574","U+1D575","U+1D576",
    "U+1D577","U+1D578","U+1D579","U+1D57A","U+1D57B","U+1D57C","U+1D57D","U+1D57E","U+1D57F",
    "U+1D580","U+1D581","U+1D582","U+1D583","U+1D584","U+1D585","U+1D586","U+1D587","U+1D588",
    "U+1D589","U+1D58A","U+1D58B","U+1D58C","U+1D58D","U+1D58E","U+1D58F","U+1D590","U+1D591",
    "U+1D592","U+1D593","U+1D594","U+1D595","U+1D596","U+1D597","U+1D598","U+1D599","U+1D59A",
    "U+1D59B","U+1D59C","U+1D59D","U+1D59E","U+1D59F","U+1D5A0","U+1D5A1","U+1D5A2","U+1D5A3",
    "U+1D5A4","U+1D5A5","U+1D5A6","U+1D5A7","U+1D5A8","U+1D5A9","U+1D5AA","U+1D5AB","U+1D5AC",
    "U+1D5AD","U+1D5AE","U+1D5AF","U+1D5B0","U+1D5B1","U+1D5B2","U+1D5B3","U+1D5B4","U+1D5B5",
    "U+1D5B6","U+1D5B7","U+1D5B8","U+1D5B9","U+1D5BA","U+1D5BB","U+1D5BC","U+1D5BD","U+1D5BE",
    "U+1D5BF","U+1D5C0","U+1D5C1","U+1D5C2","U+1D5C3","U+1D5C4","U+1D5C5","U+1D5C6","U+1D5C7",
    "U+1D5C8","U+1D5C9","U+1D5CA","U+1D5CB","U+1D5CC","U+1D5CD","U+1D5CE","U+1D5CF","U+1D5D0",
    "U+1D5D1","U+1D5D2","U+1D5D3","U+1D5D4","U+1D5D5","U+1D5D6","U+1D5D7","U+1D5D8","U+1D5D9",
    "U+1D5DA","U+1D5DB","U+1D5DC","U+1D5DD","U+1D5DE","U+1D5DF","U+1D5E0","U+1D5E1","U+1D5E2",
    "U+1D5E3","U+1D5E4","U+1D5E5","U+1D5E6","U+1D5E7","U+1D5E8","U+1D5E9","U+1D5EA","U+1D5EB",
    "U+1D5EC","U+1D5ED","U+1D5EE","U+1D5EF","U+1D5F0","U+1D5F1","U+1D5F2","U+1D5F3","U+1D5F4",
    "U+1D5F5","U+1D5F6","U+1D5F7","U+1D5F8","U+1D5F9","U+1D5FA","U+1D5FB","U+1D5FC","U+1D5FD",
    "U+1D5FE","U+1D5FF","U+1D600","U+1D601","U+1D602","U+1D603","U+1D604","U+1D605","U+1D606",
    "U+1D607","U+1D608","U+1D609","U+1D60A","U+1D60B","U+1D60C","U+1D60D","U+1D60E","U+1D60F",
    "U+1D610","U+1D611","U+1D612","U+1D613","U+1D614","U+1D615","U+1D616","U+1D617","U+1D618",
    "U+1D619","U+1D61A","U+1D61B","U+1D61C","U+1D61D","U+1D61E","U+1D61F","U+1D620","U+1D621",
    "U+1D622","U+1D623","U+1D624","U+1D625","U+1D626","U+1D627","U+1D628","U+1D629","U+1D62A",
    "U+1D62B","U+1D62C","U+1D62D","U+1D62E","U+1D62F","U+1D630","U+1D631","U+1D632","U+1D633",
    "U+1D634","U+1D635","U+1D636","U+1D637","U+1D638","U+1D639","U+1D63A","U+1D63B","U+1D63C",
    "U+1D63D","U+1D63E","U+1D63F","U+1D640","U+1D641","U+1D642","U+1D643","U+1D644","U+1D645",
    "U+1D646","U+1D647","U+1D648","U+1D649","U+1D64A","U+1D64B","U+1D64C","U+1D64D","U+1D64E",
    "U+1D64F","U+1D650","U+1D651","U+1D652","U+1D653","U+1D654","U+1D655","U+1D656","U+1D657",
    "U+1D658","U+1D659","U+1D65A","U+1D65B","U+1D65C","U+1D65D","U+1D65E","U+1D65F","U+1D660",
    "U+1D661","U+1D662","U+1D663","U+1D664","U+1D665","U+1D666","U+1D667","U+1D668","U+1D669",
    "U+1D66A","U+1D66B","U+1D66C","U+1D66D","U+1D66E","U+1D66F","U+1D670","U+1D671","U+1D672",
    "U+1D673","U+1D674","U+1D675","U+1D676","U+1D677","U+1D678","U+1D679","U+1D67A","U+1D67B",
    "U+1D67C","U+1D67D","U+1D67E","U+1D67F","U+1D680","U+1D681","U+1D682","U+1D683","U+1D684",
    "U+1D685","U+1D686","U+1D687","U+1D688","U+1D689","U+1D68A","U+1D68B","U+1D68C","U+1D68D",
    "U+1D68E","U+1D68F","U+1D690","U+1D691","U+1D692","U+1D693","U+1D694","U+1D695","U+1D696",
    "U+1D697","U+1D698","U+1D699","U+1D69A","U+1D69B","U+1D69C","U+1D69D","U+1D69E","U+1D69F",
    "U+1D6A0","U+1D6A1","U+1D6A2","U+1D6A3","U+1D6A4","U+1D6A5","U+1D6A8","U+1D6A9","U+1D6AA",
    "U+1D6AB","U+1D6AC","U+1D6AD","U+1D6AE","U+1D6AF","U+1D6B0","U+1D6B1","U+1D6B2","U+1D6B3",
    "U+1D6B4","U+1D6B5","U+1D6B6","U+1D6B7","U+1D6B8","U+1D6B9","U+1D6BA","U+1D6BB","U+1D6BC",
    "U+1D6BD","U+1D6BE","U+1D6BF","U+1D6C0","U+1D6C2","U+1D6C3","U+1D6C4","U+1D6C5","U+1D6C6",
    "U+1D6C7","U+1D6C8","U+1D6C9","U+1D6CA","U+1D6CB","U+1D6CC","U+1D6CD","U+1D6CE","U+1D6CF",
    "U+1D6D0","U+1D6D1","U+1D6D2","U+1D6D3","U+1D6D4","U+1D6D5","U+1D6D6","U+1D6D7","U+1D6D8",
    "U+1D6D9","U+1D6DA","U+1D6DC","U+1D6DD","U+1D6DE","U+1D6DF","U+1D6E0","U+1D6E1","U+1D6E2",
    "U+1D6E3","U+1D6E4","U+1D6E5","U+1D6E6","U+1D6E7","U+1D6E8","U+1D6E9","U+1D6EA","U+1D6EB",
    "U+1D6EC","U+1D6ED","U+1D6EE","U+1D6EF","U+1D6F0","U+1D6F1","U+1D6F2","U+1D6F3","U+1D6F4",
    "U+1D6F5","U+1D6F6","U+1D6F7","U+1D6F8","U+1D6F9","U+1D6FA","U+1D6FC","U+1D6FD","U+1D6FE",
    "U+1D6FF","U+1D700","U+1D701","U+1D702","U+1D703","U+1D704","U+1D705","U+1D706","U+1D707",
    "U+1D708","U+1D709","U+1D70A","U+1D70B","U+1D70C","U+1D70D","U+1D70E","U+1D70F","U+1D710",
    "U+1D711","U+1D712","U+1D713","U+1D714","U+1D716","U+1D717","U+1D718","U+1D719","U+1D71A",
    "U+1D71B","U+1D71C","U+1D71D","U+1D71E","U+1D71F","U+1D720","U+1D721","U+1D722","U+1D723",
    "U+1D724","U+1D725","U+1D726","U+1D727","U+1D728","U+1D729","U+1D72A","U+1D72B","U+1D72C",
    "U+1D72D","U+1D72E","U+1D72F","U+1D730","U+1D731","U+1D732","U+1D733","U+1D734","U+1D736",
    "U+1D737","U+1D738","U+1D739","U+1D73A","U+1D73B","U+1D73C","U+1D73D","U+1D73E","U+1D73F",
    "U+1D740","U+1D741","U+1D742","U+1D743","U+1D744","U+1D745","U+1D746","U+1D747","U+1D748",
    "U+1D749","U+1D74A","U+1D74B","U+1D74C","U+1D74D","U+1D74E","U+1D750","U+1D751","U+1D752",
    "U+1D753","U+1D754","U+1D755","U+1D756","U+1D757","U+1D758","U+1D759","U+1D75A","U+1D75B",
    "U+1D75C","U+1D75D","U+1D75E","U+1D75F","U+1D760","U+1D761","U+1D762","U+1D763","U+1D764",
    "U+1D765","U+1D766","U+1D767","U+1D768","U+1D769","U+1D76A","U+1D76B","U+1D76C","U+1D76D",
    "U+1D76E","U+1D770","U+1D771","U+1D772","U+1D773","U+1D774","U+1D775","U+1D776","U+1D777",
    "U+1D778","U+1D779","U+1D77A","U+1D77B","U+1D77C","U+1D77D","U+1D77E","U+1D77F","U+1D780",
    "U+1D781","U+1D782","U+1D783","U+1D784","U+1D785","U+1D786","U+1D787","U+1D788","U+1D78A",
    "U+1D78B","U+1D78C","U+1D78D","U+1D78E","U+1D78F","U+1D790","U+1D791","U+1D792","U+1D793",
    "U+1D794","U+1D795","U+1D796","U+1D797","U+1D798","U+1D799","U+1D79A","U+1D79B","U+1D79C",
    "U+1D79D","U+1D79E","U+1D79F","U+1D7A0","U+1D7A1","U+1D7A2","U+1D7A3","U+1D7A4","U+1D7A5",
    "U+1D7A6","U+1D7A7","U+1D7A8","U+1D7AA","U+1D7AB","U+1D7AC","U+1D7AD","U+1D7AE","U+1D7AF",
    "U+1D7B0","U+1D7B1","U+1D7B2","U+1D7B3","U+1D7B4","U+1D7B5","U+1D7B6","U+1D7B7","U+1D7B8",
    "U+1D7B9","U+1D7BA","U+1D7BB","U+1D7BC","U+1D7BD","U+1D7BE","U+1D7BF","U+1D7C0","U+1D7C1",
    "U+1D7C2","U+1D7C4","U+1D7C5","U+1D7C6","U+1D7C7","U+1D7C8","U+1D7C9","U+1D7CA","U+1D7CB",
    "U+1DF00","U+1DF01","U+1DF02","U+1DF03","U+1DF04","U+1DF05","U+1DF06","U+1DF07","U+1DF08",
    "U+1DF09","U+1DF0B","U+1DF0C","U+1DF0D","U+1DF0E","U+1DF0F","U+1DF10","U+1DF11","U+1DF12",
    "U+1DF13","U+1DF14","U+1DF15","U+1DF16","U+1DF17","U+1DF18","U+1DF19","U+1DF1A","U+1DF1B",
    "U+1DF1C","U+1DF1D","U+1DF1E","U+1E900","U+1E901","U+1E902","U+1E903","U+1E904","U+1E905",
    "U+1E906","U+1E907","U+1E908","U+1E909","U+1E90A","U+1E90B","U+1E90C","U+1E90D","U+1E90E",
    "U+1E90F","U+1E910","U+1E911","U+1E912","U+1E913","U+1E914","U+1E915","U+1E916","U+1E917",
    "U+1E918","U+1E919","U+1E91A","U+1E91B","U+1E91C","U+1E91D","U+1E91E","U+1E91F","U+1E920",
    "U+1E921","U+1E922","U+1E923","U+1E924","U+1E925","U+1E926","U+1E927","U+1E928","U+1E929",
    "U+1E92A","U+1E92B","U+1E92C","U+1E92D","U+1E92E","U+1E92F","U+1E930","U+1E931","U+1E932",
    "U+1E933","U+1E934","U+1E935","U+1E936","U+1E937","U+1E938","U+1E939","U+1E93A","U+1E93B",
    "U+1E93C","U+1E93D","U+1E93E","U+1E93F","U+1E940","U+1E941","U+1E942","U+1E943","U+1F130",
    "U+1F131","U+1F132","U+1F133","U+1F134","U+1F135","U+1F136","U+1F137","U+1F138","U+1F139",
    "U+1F13A","U+1F13B","U+1F13C","U+1F13D","U+1F13E","U+1F13F","U+1F140","U+1F141","U+1F142",
    "U+1F143","U+1F144","U+1F145","U+1F146","U+1F147","U+1F148","U+1F149","U+1F150","U+1F151",
    "U+1F152","U+1F153","U+1F154","U+1F155","U+1F156","U+1F157","U+1F158","U+1F159","U+1F15A",
    "U+1F15B","U+1F15C","U+1F15D","U+1F15E","U+1F15F","U+1F160","U+1F161","U+1F162","U+1F163",
    "U+1F164","U+1F165","U+1F166","U+1F167","U+1F168","U+1F169","U+1F170","U+1F171","U+1F172",
    "U+1F173","U+1F174","U+1F175","U+1F176","U+1F177","U+1F178","U+1F179","U+1F17A","U+1F17B",
    "U+1F17C","U+1F17D","U+1F17E","U+1F17F","U+1F180","U+1F181","U+1F182","U+1F183","U+1F184",
    "U+1F185","U+1F186","U+1F187","U+1F188","U+1F189"}
CaseIgnorable == {"'",".",":","^","U+0060","¨","­","¯","´","·","¸","ʰ","ʱ","ʲ","ʳ","ʴ","ʵ","ʶ",
    "ʷ","ʸ","ʹ","ʺ","ʻ","ʼ","ʽ","ʾ","ʿ","ˀ","ˁ","˂","˃","˄","˅","ˆ","ˇ","ˈ","ˉ","ˊ","ˋ","ˌ","ˍ",
    "ˎ","ˏ","ː","ˑ","˒","˓","˔","˕","˖","˗","˘","˙","˚","˛","˜","˝","˞","˟","ˠ","ˡ","ˢ","ˣ","ˤ",
    "˥","˦","˧","˨","˩","˪","˫","ˬ","˭","ˮ","˯","˰","˱","˲","˳","˴","˵","˶","˷","˸","˹","˺","˻",
    "˼","˽","˾","˿","U+0300","U+0301","U+0302","U+0303","U+0304","U+0305","U+0306","U+0307",
    "U+0308","U+0309","U+030A","U+030B","U+030C","U+030D","U+030E","U+030F","U+0310","U+0311",
    "U+0312","U+0313","U+0314","U+0315","U+0316","U+0317","U+0318","U+0319","U+031A","U+031B",
    "U+031C","U+031D","U+031E","U+031F","U+0320","U+0321","U+0322","U+0323","U+0324","U+0325",
    "U+0326","U+0327","U+0328","U+0329","U+032A","U+032B","U+032C","U+032D","U+032E","U+032F",
    "U+0330","U+0331","U+0332","U+0333","U+0334","U+0335","U+0336","U+0337","U+0338","U+0339",
    "U+033A","U+033B","U+033C","U+033D","U+033E","U+033F","U+0340","U+0341","U+0342","U+0343",
    "U+0344","U+0345","U+0346","U+0347","U+0348","U+0349","U+034A","U+034B","U+034C","U+034D",
    "U+034E","U+034F","U+0350","U+0351","U+0352","U+0353","U+0354","U+0355","U+0356","U+0357",
    "U+0358","U+0359","U+035A","U+035B","U+035C","U+035D","U+035E","U+035F","U+0360","U+0361",
    "U+0362","U+0363","U+0364","U+0365","U+0366","U+0367","U+0368","U+0369","U+036A","U+036B",
    "U+036C","U+036D","U+036E","U+036F","U+0374","U+0375","U+037A","΄","΅","·","҃","҄","҅","҆",
    "҇","҈","҉","U+0559","U+055F","֑","֒","֓","֔","֕","֖","֗","֘","֙","֚","֛","֜","֝","֞","֟",
    "֠","֡","֢","֣","֤","֥","֦","֧","֨","֩","֪","֫","֬","֭","֮","֯","ְ","ֱ","ֲ","ֳ","ִ","ֵ","ֶ",
    "ַ","ָ","ֹ","ֺ","ֻ","ּ","ֽ","ֿ","ׁ","ׂ","ׄ","ׅ","ׇ","״","U+0600","U+0601","U+0602","U+0603",
    "U+0604","U+0605","U+0610","U+0611","U+0612","U+0613","U+0614","U+0615","U+0616","U+0617",
    "U+0618","U+0619","U+061A","U+061C","U+0640","U+064B","U+064C","U+064D","U+064E","U+064F",
    "U+0650","U+0651","U+0652","U+0653","U+0654","U+0655","U+0656","U+0657","U+0658","U+0659",
    "U+065A","U+065B","U+065C","U+065D","U+065E","U+065F","U+0670","ۖ","ۗ","ۘ","ۙ","ۚ","ۛ","ۜ",
    "۝","۟","۠","ۡ","ۢ","ۣ","ۤ","ۥ","ۦ","ۧ","ۨ","۪","۫","۬","ۭ","U+070F","U+0711","U+0730",
    "U+0731","U+0732","U+0733","U+0734","U+0735","U+0736","U+0737","U+0738","U+0739","U+073A",
    "U+073B","U+073C","U+073D","U+073E","U+073F","U+0740","U+0741","U+0742","U+0743","U+0744",
    "U+0745","U+0746","U+0747","U+0748","U+0749","U+074A","ަ","ާ","ި","ީ","ު","ޫ","ެ","ޭ","ޮ",
    "ޯ","ް","߫","߬","߭","߮","߯","߰","߱","߲","߳","ߴ","ߵ","ߺ","߽","U+0816","U+0817","U+0818",
    "U+0819","U+081A","U+081B","U+081C","U+081D","U+081E","U+081F","U+0820","U+0821","U+0822",
    "U+0823","U+0824","U+0825","U+0826","U+0827","U+0828","U+0829","U+082A","U+082B","U+082C",
    "U+082D","U+0859","U+085A","U+085B","࢈","࢐","࢑","࢘","࢙","࢚","࢛","࢜","࢝","࢞","࢟","ࣉ","࣊","࣋",
    "࣌","࣍","࣎","࣏","࣐","࣑","࣒","࣓","ࣔ","ࣕ","ࣖ","ࣗ","ࣘ","ࣙ","ࣚ","ࣛ","ࣜ","ࣝ","ࣞ","ࣟ","࣠","࣡","࣢",
    "ࣣ","ࣤ","ࣥ","ࣦ","ࣧ","ࣨ","ࣩ","࣪","࣫","࣬","࣭","࣮","࣯","ࣰ","ࣱ","ࣲ","ࣳ","ࣴ","ࣵ","ࣶ","ࣷ","ࣸ","ࣹ",
    "ࣺ","ࣻ","ࣼ","ࣽ","ࣾ","ࣿ","U+0900","U+0901","U+0902","U+093A","U+093C","U+0941","U+0942",
    "U+0943","U+0944","U+0945","U+0946","U+0947","U+0948","U+094D","U+0951","U+0952","U+0953",
    "U+0954","U+0955","U+0956","U+0957","U+0962","U+0963","U+0971","ঁ","়","ু","ূ","ৃ","ৄ","্",
    "ৢ","ৣ","৾","U+0A01","U+0A02","U+0A3C","U+0A41","U+0A42","U+0A47","U+0A48","U+0A4B",
    "U+0A4C","U+0A4D","U+0A51","U+0A70","U+0A71","U+0A75","ઁ","ં","઼","ુ","ૂ","ૃ","ૄ","ૅ","ે",
    "ૈ","્","ૢ","ૣ","ૺ","ૻ","ૼ","૽","૾","૿","U+0B01","U+0B3C","U+0B3F","U+0B41","U+0B42",
    "U+0B43","U+0B44","U+0B4D","U+0B55","U+0B56","U+0B62","U+0B63","ஂ","ீ","்","U+0C00",
    "U+0C04","U+0C3C","U+0C3E","U+0C3F","U+0C40","U+0C46","U+0C47","U+0C48","U+0C4A","U+0C4B",
    "U+0C4C","U+0C4D","U+0C55","U+0C56","U+0C62","U+0C63","ಁ","಼","ಿ","ೆ","ೌ","್","ೢ","ೣ",
    "U+0D00","U+0D01","U+0D3B","U+0D3C","U+0D41","U+0D42","U+0D43","U+0D44","U+0D4D","U+0D62",
    "U+0D63","ඁ","්","ි","ී","ු","ූ","U+0E31","U+0E34","U+0E35","U+0E36","U+0E37","U+0E38",
    "U+0E39","U+0E3A","U+0E46","U+0E47","U+0E48","U+0E49","U+0E4A","U+0E4B","U+0E4C","U+0E4D",
    "U+0E4E","ັ","ິ","ີ","ຶ","ື","ຸ","ູ","຺","ົ","ຼ","ໆ","່","້","໊","໋","໌","ໍ","U+0F18",
    "U+0F19","U+0F35","U+0F37","U+0F39","U+0F71","U+0F72","U+0F73","U+0F74","U+0F75","U+0F76",
    "U+0F77","U+0F78","U+0F79","U+0F7A","U+0F7B","U+0F7C","U+0F7D","U+0F7E","ྀ","ཱྀ","ྂ","ྃ","྄",
    "྆","྇","ྍ","ྎ","ྏ","ྐ","ྑ","ྒ","ྒྷ","ྔ","ྕ","ྖ","ྗ","ྙ","ྚ","ྛ","ྜ","ྜྷ","ྞ","ྟ","ྠ","ྡ","ྡྷ",
    "ྣ","ྤ","ྥ","ྦ","ྦྷ","ྨ","ྩ","ྪ","ྫ","ྫྷ","ྭ","ྮ","ྯ","ྰ","ྱ","ྲ","ླ","ྴ","ྵ","ྶ","ྷ","ྸ","ྐྵ",
    "ྺ","ྻ","ྼ","࿆","U+102D","U+102E","U+102F","U+1030","U+1032","U+1033","U+1034","U+1035",
    "U+1036","U+1037","U+1039","U+103A","U+103D","U+103E","U+1058","U+1059","U+105E","U+105F",
    "U+1060","U+1071","U+1072","U+1073","U+1074","ႂ","ႅ","ႆ","ႍ","ႝ","ჼ","U+135D","U+135E",
    "U+135F","U+1712","U+1713","U+1714","U+1732","U+1733","U+1752","U+1753","U+1772","U+1773",
    "឴","឵","ិ","ី","ឹ","ឺ","ុ","ូ","ួ","ំ","៉","៊","់","៌","៍","៎","៏","័","៑","្","៓","ៗ","៝",
    "U+180B","U+180C","U+180D","U+180E","U+180F","U+1843","ᢅ","ᢆ","ᢩ","U+1920","U+1921",
    "U+1922","U+1927","U+1928","U+1932","U+1939","U+193A","U+193B","U+1A17","U+1A18","U+1A1B",
    "U+1A56","U+1A58","U+1A59","U+1A5A","U+1A5B","U+1A5C","U+1A5D","U+1A5E","U+1A60","U+1A62",
    "U+1A65","U+1A66","U+1A67","U+1A68","U+1A69","U+1A6A","U+1A6B","U+1A6C","U+1A73","U+1A74",
    "U+1A75","U+1A76","U+1A77","U+1A78","U+1A79","U+1A7A","U+1A7B","U+1A7C","U+1A7F","ᪧ","᪰",
    "᪱","᪲","᪳","᪴","᪵","᪶","᪷","᪸","᪹","᪺","᪻","᪼","᪽","᪾","ᪿ","ᫀ","᫁","᫂","᫃","᫄","᫅","᫆","᫇",
    "᫈","᫉","᫊","᫋","ᫌ","ᫍ","ᫎ","U+1B00","U+1B01","U+1B02","U+1B03","U+1B34","U+1B36","U+1B37",
    "U+1B38","U+1B39","U+1B3A","U+1B3C","U+1B42","U+1B6B","U+1B6C","U+1B6D","U+1B6E","U+1B6F",
    "U+1B70","U+1B71","U+1B72","U+1B73","ᮀ","ᮁ","ᮢ","ᮣ","ᮤ","ᮥ","ᮨ","ᮩ","᮫","ᮬ","ᮭ","᯦","ᯨ","ᯩ",
    "ᯭ","ᯯ","ᯰ","ᯱ","U+1C2C","U+1C2D","U+1C2E","U+1C2F","U+1C30","U+1C31","U+1C32","U+1C33",
    "U+1C36","U+1C37","U+1C78","U+1C79","U+1C7A","U+1C7B","U+1C7C","U+1C7D","᳐","᳑","᳒","᳔","᳕",
    "᳖","᳗","᳘","᳙","᳚","᳛","᳜","᳝","᳞","᳟","᳠","᳢","᳣","᳤","᳥","᳦","᳧","᳨","᳭","᳴","᳸","᳹",
    "U+1D2C","U+1D2D","U+1D2E","U+1D2F","U+1D30","U+1D31","U+1D32","U+1D33","U+1D34","U+1D35",
    "U+1D36","U+1D37","U+1D38","U+1D39","U+1D3A","U+1D3B","U+1D3C","U+1D3D","U+1D3E","U+1D3F",
    "U+1D40","U+1D41","U+1D42","U+1D43","U+1D44","U+1D45","U+1D46","U+1D47","U+1D48","U+1D49",
    "U+1D4A","U+1D4B","U+1D4C","U+1D4D","U+1D4E","U+1D4F","U+1D50","U+1D51","U+1D52","U+1D53",
    "U+1D54","U+1D55","U+1D56","U+1D57","U+1D58","U+1D59","U+1D5A","U+1D5B","U+1D5C","U+1D5D",
    "U+1D5E","U+1D5F","U+1D60","U+1D61","U+1D62","U+1D63","U+1D64","U+1D65","U+1D66","U+1D67",
    "U+1D68","U+1D69","U+1D6A","U+1D78","ᶛ","ᶜ","ᶝ","ᶞ","ᶟ","ᶠ","ᶡ","ᶢ","ᶣ","ᶤ","ᶥ","ᶦ","ᶧ","ᶨ",
    "ᶩ","ᶪ","ᶫ","ᶬ","ᶭ","ᶮ","ᶯ","ᶰ","ᶱ","ᶲ","ᶳ","ᶴ","ᶵ","ᶶ","ᶷ","ᶸ","ᶹ","ᶺ","ᶻ","ᶼ","ᶽ","ᶾ","ᶿ",
    "᷀","᷁","᷂","᷃","᷄","᷅","᷆","᷇","᷈","᷉","᷊","᷋","᷌","᷍","᷎","᷏","᷐","᷑","᷒","ᷓ","ᷔ","ᷕ","ᷖ",
    "ᷗ","ᷘ","ᷙ","ᷚ","ᷛ","ᷜ","ᷝ","ᷞ","ᷟ","ᷠ","ᷡ","ᷢ","ᷣ","ᷤ","ᷥ","ᷦ","ᷧ","ᷨ","ᷩ","ᷪ","ᷫ","ᷬ","ᷭ",
    "ᷮ","ᷯ","ᷰ","ᷱ","ᷲ","ᷳ","ᷴ","᷵","᷶","᷷","᷸","᷹","᷺","᷻","᷼","᷽","᷾","᷿","᾽","᾿","῀","῁","῍",
    "῎","῏","῝","῞","῟","῭","΅","`","´","῾","U+200B","U+200C","U+200D","U+200E","U+200F",
    "U+2018","U+2019","U+2024","U+2027","U+202A","U+202B","U+202C","U+202D","U+202E","U+2060",
    "U+2061","U+2062","U+2063","U+2064","U+2066","U+2067","U+2068","U+2069","U+206A","U+206B",
    "U+206C","U+206D","U+206E","U+206F","U+2071","U+207F","ₐ","ₑ","ₒ","ₓ","ₔ","ₕ","ₖ","ₗ","ₘ",
    "ₙ","ₚ","ₛ","ₜ","⃐","⃑","⃒","⃓","⃔","⃕","⃖","⃗","⃘","⃙","⃚","⃛","⃜","⃝","⃞","⃟","⃠","⃡","⃢",
    "⃣","⃤","⃥","⃦","⃧","⃨","⃩","⃪","⃫","⃬","⃭","⃮","⃯","⃰","U+2C7C","U+2C7D","⳯","⳰","⳱",
    "U+2D6F","U+2D7F","ⷠ","ⷡ","ⷢ","ⷣ","ⷤ","ⷥ","ⷦ","ⷧ","ⷨ","ⷩ","ⷪ","ⷫ","ⷬ","ⷭ","ⷮ","ⷯ","ⷰ","ⷱ",
    "ⷲ","ⷳ","ⷴ","ⷵ","ⷶ","ⷷ","ⷸ","ⷹ","ⷺ","ⷻ","ⷼ","ⷽ","ⷾ","ⷿ","U+2E2F","U+3005","U+302A","U+302B",
    "U+302C","U+302D","U+3031","U+3032","U+3033","U+3034","U+3035","U+303B","゙","゚","゛","゜","ゝ",
    "ゞ","ー","ヽ","ヾ","U+A015","ꓸ","ꓹ","ꓺ","ꓻ","ꓼ","ꓽ","U+A60C","U+A66F","U+A670","U+A671",
    "U+A672","U+A674","U+A675","U+A676","U+A677","U+A678","U+A679","U+A67A","U+A67B","U+A67C",
    "U+A67D","U+A67F","ꚜ","ꚝ","ꚞ","ꚟ","꛰","꛱","U+A700","U+A701","U+A702","U+A703","U+A704",
    "U+A705","U+A706","U+A707","U+A708","U+A709","U+A70A","U+A70B","U+A70C","U+A70D","U+A70E",
    "U+A70F","U+A710","U+A711","U+A712","U+A713","U+A714","U+A715","U+A716","U+A717","U+A718",
    "U+A719","U+A71A","U+A71B","U+A71C","U+A71D","U+A71E","U+A71F","U+A720","U+A721","U+A770",
    "ꞈ","꞉","꞊","ꟲ","ꟳ","ꟴ","ꟸ","ꟹ","U+A802","U+A806","U+A80B","U+A825","U+A826","U+A82C","꣄",
    "ꣅ","꣠","꣡","꣢","꣣","꣤","꣥","꣦","꣧","꣨","꣩","꣪","꣫","꣬","꣭","꣮","꣯","꣰","꣱","ꣿ","U+A926",
    "U+A927","U+A928","U+A929","U+A92A","U+A92B","U+A92C","U+A92D","U+A947","U+A948","U+A949",
    "U+A94A","U+A94B","U+A94C","U+A94D","U+A94E","U+A94F","U+A950","U+A951","ꦀ","ꦁ","ꦂ","꦳","ꦶ",
    "ꦷ","ꦸ","ꦹ","ꦼ","ꦽ","ꧏ","ꧥ","ꧦ","U+AA29","U+AA2A","U+AA2B","U+AA2C","U+AA2D","U+AA2E",
    "U+AA31","U+AA32","U+AA35","U+AA36","U+AA43","U+AA4C","U+AA70","U+AA7C","ꪰ","ꪲ","ꪳ","ꪴ","ꪷ",
    "ꪸ","ꪾ","꪿","꫁","ꫝ","ꫬ","ꫭ","ꫳ","ꫴ","꫶","U+AB5B","U+AB5C","U+AB5D","U+AB5E","U+AB5F",
    "U+AB69","U+AB6A","U+AB6B","ꯥ","ꯨ","꯭","U+FB1E","﮲","﮳","﮴","﮵","﮶","﮷","﮸","﮹","﮺","﮻","﮼",
    "﮽","﮾","﮿","﯀","﯁","﯂","U+FE00","U+FE01","U+FE02","U+FE03","U+FE04","U+FE05","U+FE06",
    "U+FE07","U+FE08","U+FE09","U+FE0A","U+FE0B","U+FE0C","U+FE0D","U+FE0E","U+FE0F","U+FE13",
    "U+FE20","U+FE21","U+FE22","U+FE23","U+FE24","U+FE25","U+FE26","U+FE27","U+FE28","U+FE29",
    "U+FE2A","U+FE2B","U+FE2C","U+FE2D","U+FE2E","U+FE2F","U+FE52","U+FE55","﻿","U+FF07",
    "U+FF0E","U+FF1A","U+FF3E","U+FF40","U+FF70","ﾞ","ﾟ","￣","￹","￺","￻","U+101FD","U+102E0",
    "U+10376","U+10377","U+10378","U+10379","U+1037A","U+10780","U+10781","U+10782","U+10783",
    "U+10784","U+10785","U+10787","U+10788","U+10789","U+1078A","U+1078B","U+1078C","U+1078D",
    "U+1078E","U+1078F","U+10790","U+10791","U+10792","U+10793","U+10794","U+10795","U+10796",
    "U+10797","U+10798","U+10799","U+1079A","U+1079B","U+1079C","U+1079D","U+1079E","U+1079F",
    "U+107A0","U+107A1","U+107A2","U+107A3","U+107A4","U+107A5","U+107A6","U+107A7","U+107A8",
    "U+107A9","U+107AA","U+107AB","U+107AC","U+107AD","U+107AE","U+107AF","U+107B0","U+107B2",
    "U+107B3","U+107B4","U+107B5","U+107B6","U+107B7","U+107B8","U+107B9","U+107BA","U+10A01",
    "U+10A02","U+10A03","U+10A05","U+10A06","U+10A0C","U+10A0D","U+10A0E","U+10A0F","U+10A38",
    "U+10A39","U+10A3A","U+10A3F","U+10AE5","U+10AE6","U+10D24","U+10D25","U+10D26","U+10D27",
    "U+10EAB","U+10EAC","U+10F46","U+10F47","U+10F48","U+10F49","U+10F4A","U+10F4B","U+10F4C",
    "U+10F4D","U+10F4E","U+10F4F","U+10F50","U+10F82","U+10F83","U+10F84","U+10F85","U+11001",
    "U+11038","U+11039","U+1103A","U+1103B","U+1103C","U+1103D","U+1103E","U+1103F","U+11040",
    "U+11041","U+11042","U+11043","U+11044","U+11045","U+11046","U+11070","U+11073","U+11074",
    "U+1107F","U+11080","U+11081","U+110B3","U+110B4","U+110B5","U+110B6","U+110B9","U+110BA",
    "U+110BD","U+110C2","U+110CD","U+11100","U+11101","U+11102","U+11127","U+11128","U+11129",
    "U+1112A","U+1112B","U+1112D","U+1112E","U+1112F","U+11130","U+11131","U+11132","U+11133",
    "U+11134","U+11173","U+11180","U+11181","U+111B6","U+111B7","U+111B8","U+111B9","U+111BA",
    "U+111BB","U+111BC","U+111BD","U+111BE","U+111C9","U+111CA","U+111CB","U+111CC","U+111CF",
    "U+1122F","U+11230","U+11231","U+11234","U+11236","U+11237","U+1123E","U+112DF","U+112E3",
    "U+112E4","U+112E5","U+112E6","U+112E7","U+112E8","U+112E9","U+112EA","U+11300","U+11301",
    "U+1133B","U+1133C","U+11340","U+11366","U+11367","U+11368","U+11369","U+1136A","U+1136B",
    "U+1136C","U+11370","U+11371","U+11372","U+11373","U+11374","U+11438","U+11439","U+1143A",
    "U+1143B","U+1143C","U+1143D","U+1143E","U+1143F","U+11442","U+11443","U+11444","U+11446",
    "U+1145E","U+114B3","U+114B4","U+114B5","U+114B6","U+114B7","U+114B8","U+114BA","U+114BF",
    "U+114C0","U+114C2","U+114C3","U+115B2","U+115B3","U+115B4","U+115B5","U+115BC","U+115BD",
    "U+115BF","U+115C0","U+115DC","U+115DD","U+11633","U+11634","U+11635","U+11636","U+11637",
    "U+11638","U+11639","U+1163A","U+1163D","U+1163F","U+11640","U+116AB","U+116AD","U+116B0",
    "U+116B1","U+116B2","U+116B3","U+116B4","U+116B5","U+116B7","U+1171D","U+1171E","U+1171F",
    "U+11722","U+11723","U+11724","U+11725","U+11727","U+11728","U+11729","U+1172A","U+1172B",
    "U+1182F","U+11830","U+11831","U+11832","U+11833","U+11834","U+11835","U+11836","U+11837",
    "U+11839","U+1183A","U+1193B","U+1193C","U+1193E","U+11943","U+119D4","U+119D5","U+119D6",
    "U+119D7","U+119DA","U+119DB","U+119E0","U+11A01","U+11A02","U+11A03","U+11A04","U+11A05",
    "U+11A06","U+11A07","U+11A08","U+11A09","U+11A0A","U+11A33","U+11A34","U+11A35","U+11A36",
    "U+11A37","U+11A38","U+11A3B","U+11A3C","U+11A3D","U+11A3E","U+11A47","U+11A51","U+11A52",
    "U+11A53","U+11A54","U+11A55","U+11A56","U+11A59","U+11A5A","U+11A5B","U+11A8A","U+11A8B",
    "U+11A8C","U+11A8D","U+11A8E","U+11A8F","U+11A90","U+11A91","U+11A92","U+11A93","U+11A94",
    "U+11A95","U+11A96","U+11A98","U+11A99","U+11C30","U+11C31","U+11C32","U+11C33","U+11C34",
    "U+11C35","U+11C36","U+11C38","U+11C39","U+11C3A","U+11C3B","U+11C3C","U+11C3D","U+11C3F",
    "U+11C92","U+11C93","U+11C94","U+11C95","U+11C96","U+11C97","U+11C98","U+11C99","U+11C9A",
    "U+11C9B","U+11C9C","U+11C9D","U+11C9E","U+11C9F","U+11CA0","U+11CA1","U+11CA2","U+11CA3",
    "U+11CA4","U+11CA5","U+11CA6","U+11CA7","U+11CAA","U+11CAB","U+11CAC","U+11CAD","U+11CAE",
    "U+11CAF","U+11CB0","U+11CB2","U+11CB3","U+11CB5","U+11CB6","U+11D31","U+11D32","U+11D33",
    "U+11D34","U+11D35","U+11D36","U+11D3A","U+11D3C","U+11D3D","U+11D3F","U+11D40","U+11D41",
    "U+11D42","U+11D43","U+11D44","U+11D45","U+11D47","U+11D90","U+11D91","U+11D95","U+11D97",
    "U+11EF3","U+11EF4","U+13430","U+13431","U+13432","U+13433","U+13434","U+13435","U+13436",
    "U+13437","U+13438","U+16AF0","U+16AF1","U+16AF2","U+16AF3","U+16AF4","U+16B30","U+16B31",
    "U+16B32","U+16B33","U+16B34","U+16B35","U+16B36","U+16B40","U+16B41","U+16B42","U+16B43",
    "U+16F4F","U+16F8F","U+16F90","U+16F91","U+16F92","U+16F93","U+16F94","U+16F95","U+16F96",
    "U+16F97","U+16F98","U+16F99","U+16F9A","U+16F9B","U+16F9C","U+16F9D","U+16F9E","U+16F9F",
    "U+16FE0","U+16FE1","U+16FE3","U+16FE4","U+1AFF0","U+1AFF1","U+1AFF2","U+1AFF3","U+1AFF5",
    "U+1AFF6","U+1AFF7","U+1AFF8","U+1AFF9","U+1AFFA","U+1AFFB","U+1AFFD","U+1AFFE","U+1BC9D",
    "U+1BC9E","U+1BCA0","U+1BCA1","U+1BCA2","U+1BCA3","U+1CF00","U+1CF01","U+1CF02","U+1CF03",
    "U+1CF04","U+1CF05","U+1CF06","U+1CF07","U+1CF08","U+1CF09","U+1CF0A","U+1CF0B","U+1CF0C",
    "U+1CF0D","U+1CF0E","U+1CF0F","U+1CF10","U+1CF11","U+1CF12","U+1CF13","U+1CF14","U+1CF15",
    "U+1CF16","U+1CF17","U+1CF18","U+1CF19","U+1CF1A","U+1CF1B","U+1CF1C","U+1CF1D","U+1CF1E",
    "U+1CF1F","U+1CF20","U+1CF21","U+1CF22","U+1CF23","U+1CF24","U+1CF25","U+1CF26","U+1CF27",
    "U+1CF28","U+1CF29","U+1CF2A","U+1CF2B","U+1CF2C","U+1CF2D","U+1CF30","U+1CF31","U+1CF32",
    "U+1CF33","U+1CF34","U+1CF35","U+1CF36","U+1CF37","U+1CF38","U+1CF39","U+1CF3A","U+1CF3B",
    "U+1CF3C","U+1CF3D","U+1CF3E","U+1CF3F","U+1CF40","U+1CF41","U+1CF42","U+1CF43","U+1CF44",
    "U+1CF45","U+1CF46","U+1D167","U+1D168","U+1D169","U+1D173","U+1D174","U+1D175","U+1D176",
    "U+1D177","U+1D178","U+1D179","U+1D17A","U+1D17B","U+1D17C","U+1D17D","U+1D17E","U+1D17F",
    "U+1D180","U+1D181","U+1D182","U+1D185","U+1D186","U+1D187","U+1D188","U+1D189","U+1D18A",
    "U+1D18B","U+1D1AA","U+1D1AB","U+1D1AC","U+1D1AD","U+1D242","U+1D243","U+1D244","U+1DA00",
    "U+1DA01","U+1DA02","U+1DA03","U+1DA04","U+1DA05","U+1DA06","U+1DA07","U+1DA08","U+1DA09",
    "U+1DA0A","U+1DA0B","U+1DA0C","U+1DA0D","U+1DA0E","U+1DA0F","U+1DA10","U+1DA11","U+1DA12",
    "U+1DA13","U+1DA14","U+1DA15","U+1DA16","U+1DA17","U+1DA18","U+1DA19","U+1DA1A","U+1DA1B",
    "U+1DA1C","U+1DA1D","U+1DA1E","U+1DA1F","U+1DA20","U+1DA21","U+1DA22","U+1DA23","U+1DA24",
    "U+1DA25","U+1DA26","U+1DA27","U+1DA28","U+1DA29","U+1DA2A","U+1DA2B","U+1DA2C","U+1DA2D",
    "U+1DA2E","U+1DA2F","U+1DA30","U+1DA31","U+1DA32","U+1DA33","U+1DA34","U+1DA35","U+1DA36",
    "U+1DA3B","U+1DA3C","U+1DA3D","U+1DA3E","U+1DA3F","U+1DA40","U+1DA41","U+1DA42","U+1DA43",
    "U+1DA44","U+1DA45","U+1DA46","U+1DA47","U+1DA48","U+1DA49","U+1DA4A","U+1DA4B","U+1DA4C",
    "U+1DA4D","U+1DA4E","U+1DA4F","U+1DA50","U+1DA51","U+1DA52","U+1DA53","U+1DA54","U+1DA55",
    "U+1DA56","U+1DA57","U+1DA58","U+1DA59","U+1DA5A","U+1DA5B","U+1DA5C","U+1DA5D","U+1DA5E",
    "U+1DA5F","U+1DA60","U+1DA61","U+1DA62","U+1DA63","U+1DA64","U+1DA65","U+1DA66","U+1DA67",
    "U+1DA68","U+1DA69","U+1DA6A","U+1DA6B","U+1DA6C","U+1DA75","U+1DA84","U+1DA9B","U+1DA9C",
    "U+1DA9D","U+1DA9E","U+1DA9F","U+1DAA1","U+1DAA2","U+1DAA3","U+1DAA4","U+1DAA5","U+1DAA6",
    "U+1DAA7","U+1DAA8","U+1DAA9","U+1DAAA","U+1DAAB","U+1DAAC","U+1DAAD","U+1DAAE","U+1DAAF",
    "U+1E000","U+1E001","U+1E002","U+1E003","U+1E004","U+1E005","U+1E006","U+1E008","U+1E009",
    "U+1E00A","U+1E00B","U+1E00C","U+1E00D","U+1E00E","U+1E00F","U+1E010","U+1E011","U+1E012",
    "U+1E013","U+1E014","U+1E015","U+1E016","U+1E017","U+1E018","U+1E01B","U+1E01C","U+1E01D",
    "U+1E01E","U+1E01F","U+1E020","U+1E021","U+1E023","U+1E024","U+1E026","U+1E027","U+1E028",
    "U+1E029","U+1E02A","U+1E130","U+1E131","U+1E132","U+1E133","U+1E134","U+1E135","U+1E136",
    "U+1E137","U+1E138","U+1E139","U+1E13A","U+1E13B","U+1E13C","U+1E13D","U+1E2AE","U+1E2EC",
    "U+1E2ED","U+1E2EE","U+1E2EF","U+1E8D0","U+1E8D1","U+1E8D2","U+1E8D3","U+1E8D4","U+1E8D5",
    "U+1E8D6","U+1E944","U+1E945","U+1E946","U+1E947","U+1E948","U+1E949","U+1E94A","U+1E94B",
    "U+1F3FB","U+1F3FC","U+1F3FD","U+1F3FE","U+1F3FF","U+E0001","U+E0020","U+E0021","U+E0022",
    "U+E0023","U+E0024","U+E0025","U+E0026","U+E0027","U+E0028","U+E0029","U+E002A","U+E002B",
    "U+E002C","U+E002D","U+E002E","U+E002F","U+E0030","U+E0031","U+E0032","U+E0033","U+E0034",
    "U+E0035","U+E0036","U+E0037","U+E0038","U+E0039","U+E003A","U+E003B","U+E003C","U+E003D",
    "U+E003E","U+E003F","U+E0040","U+E0041","U+E0042","U+E0043","U+E0044","U+E0045","U+E0046",
    "U+E0047","U+E0048","U+E0049","U+E004A","U+E004B","U+E004C","U+E004D","U+E004E","U+E004F",
    "U+E0050","U+E0051","U+E0052","U+E0053","U+E0054","U+E0055","U+E0056","U+E0057","U+E0058",
    "U+E0059","U+E005A","U+E005B","U+E005C","U+E005D","U+E005E","U+E005F","U+E0060","U+E0061",
    "U+E0062","U+E0063","U+E0064","U+E0065","U+E0066","U+E0067","U+E0068","U+E0069","U+E006A",
    "U+E006B","U+E006C","U+E006D","U+E006E","U+E006F","U+E0070","U+E0071","U+E0072","U+E0073",
    "U+E0074","U+E0075","U+E0076","U+E0077","U+E0078","U+E0079","U+E007A","U+E007B","U+E007C",
    "U+E007D","U+E007E","U+E007F","U+E0100","U+E0101","U+E0102","U+E0103","U+E0104","U+E0105",
    "U+E0106","U+E0107","U+E0108","U+E0109","U+E010A","U+E010B","U+E010C","U+E010D","U+E010E",
    "U+E010F","U+E0110","U+E0111","U+E0112","U+E0113","U+E0114","U+E0115","U+E0116","U+E0117",
    "U+E0118","U+E0119","U+E011A","U+E011B","U+E011C","U+E011D","U+E011E","U+E011F","U+E0120",
    "U+E0121","U+E0122","U+E0123","U+E0124","U+E0125","U+E0126","U+E0127","U+E0128","U+E0129",
    "U+E012A","U+E012B","U+E012C","U+E012D","U+E012E","U+E012F","U+E0130","U+E0131","U+E0132",
    "U+E0133","U+E0134","U+E0135","U+E0136","U+E0137","U+E0138","U+E0139","U+E013A","U+E013B",
    "U+E013C","U+E013D","U+E013E","U+E013F","U+E0140","U+E0141","U+E0142","U+E0143","U+E0144",
    "U+E0145","U+E0146","U+E0147","U+E0148","U+E0149","U+E014A","U+E014B","U+E014C","U+E014D",
    "U+E014E","U+E014F","U+E0150","U+E0151","U+E0152","U+E0153","U+E0154","U+E0155","U+E0156",
    "U+E0157","U+E0158","U+E0159","U+E015A","U+E015B","U+E015C","U+E015D","U+E015E","U+E015F",
    "U+E0160","U+E0161","U+E0162","U+E0163","U+E0164","U+E0165","U+E0166","U+E0167","U+E0168",
    "U+E0169","U+E016A","U+E016B","U+E016C","U+E016D","U+E016E","U+E016F","U+E0170","U+E0171",
    "U+E0172","U+E0173","U+E0174","U+E0175","U+E0176","U+E0177","U+E0178","U+E0179","U+E017A",
    "U+E017B","U+E017C","U+E017D","U+E017E","U+E017F","U+E0180","U+E0181","U+E0182","U+E0183",
    "U+E0184","U+E0185","U+E0186","U+E0187","U+E0188","U+E0189","U+E018A","U+E018B","U+E018C",
    "U+E018D","U+E018E","U+E018F","U+E0190","U+E0191","U+E0192","U+E0193","U+E0194","U+E0195",
    "U+E0196","U+E0197","U+E0198","U+E0199","U+E019A","U+E019B","U+E019C","U+E019D","U+E019E",
    "U+E019F","U+E01A0","U+E01A1","U+E01A2","U+E01A3","U+E01A4","U+E01A5","U+E01A6","U+E01A7",
    "U+E01A8","U+E01A9","U+E01AA","U+E01AB","U+E01AC","U+E01AD","U+E01AE","U+E01AF","U+E01B0",
    "U+E01B1","U+E01B2","U+E01B3","U+E01B4","U+E01B5","U+E01B6","U+E01B7","U+E01B8","U+E01B9",
    "U+E01BA","U+E01BB","U+E01BC","U+E01BD","U+E01BE","U+E01BF","U+E01C0","U+E01C1","U+E01C2",
    "U+E01C3","U+E01C4","U+E01C5","U+E01C6","U+E01C7","U+E01C8","U+E01C9","U+E01CA","U+E01CB",
    "U+E01CC","U+E01CD","U+E01CE","U+E01CF","U+E01D0","U+E01D1","U+E01D2","U+E01D3","U+E01D4",
    "U+E01D5","U+E01D6","U+E01D7","U+E01D8","U+E01D9","U+E01DA","U+E01DB","U+E01DC","U+E01DD",
    "U+E01DE","U+E01DF","U+E01E0","U+E01E1","U+E01E2","U+E01E3","U+E01E4","U+E01E5","U+E01E6",
    "U+E01E7","U+E01E8","U+E01E9","U+E01EA","U+E01EB","U+E01EC","U+E01ED","U+E01EE","U+E01EF"}

\* str.lower() on a capital sigma at position i: the final form when a cased
\* letter precedes it and none follows, case-ignorable characters skipped.
FinalSigma(s, i) ==
    /\ \E j \in 1..(i - 1) :
          /\ s[j] \in CasedChars
          /\ \A k \in (j + 1)..(i - 1) : s[k] \in CaseIgnorable
    /\ ~ \E j \in (i + 1)..Len(s) :
            /\ s[j] \in CasedChars
            /\ \A k \in (i + 1)..(j - 1) : s[k] \in CaseIgnorable

RECURSIVE LowerFrom(_, _)
LowerFrom(s, i) ==
    IF i > Len(s) THEN <<>>
    ELSE (IF s[i] = "Σ" /\ FinalSigma(s, i) THEN <<"ς">> ELSE LowerChar(s[i]))
            \o LowerFrom(s, i + 1)

\* str.lower()
Lower(s) == LowerFrom(s, 1)

\* str.strip()
Strip(s) ==
    LET keep == {i \in 1..Len(s) : s[i] \notin Whitespace}
    IN  IF keep = {} THEN <<>>
        ELSE LET lo == CHOOSE i \in keep : \A j \in keep : i <= j
                 hi == CHOOSE i \in keep : \A j \in keep : i >= j
             IN  SubSeq(s, lo, hi)

RECURSIVE SplitRec(_, _, _, _)
SplitRec(s, sep, i, cur) ==
    IF i > Len(s) THEN <<cur>>
    ELSE IF s[i] = sep THEN <<cur>> \o SplitRec(s, sep, i + 1, <<>>)
    ELSE SplitRec(s, sep, i + 1, Append(cur, s[i]))

\* str.split(sep) for a one-character separator: empty segments are kept.
Split(s, sep) == SplitRec(s, sep, 1, <<>>)

\* [p for p in g.split("/") if p]
Parts(g) == SelectSeq(Split(g, "/"), LAMBDA p : p # <<>>)

\* x in list
In(x, list) == \E i \in DOMAIN list : list[i] = x

\* [g.lower() for g in groups]
LowerAll(groups) == [i \in DOMAIN groups |-> Lower(groups[i])]

s_admin == <<"a","d","m","i","n">>
s_user == <<"u","s","e","r">>
s_manager == <<"m","a","n","a","g","e","r">>
s_member == <<"m","e","m","b","e","r">>
s_super_admin == <<"s","u","p","e","r","-","a","d","m","i","n">>
s_acme == <<"a","c","m","e">>
s_beta == <<"b","e","t","a">>
s_pay == <<"p","a","y">>
s_bob == <<"b","o","b">>
s_eve == <<"e","v","e">>

\* f"/{a}", f"/{a}/{b}", f"/{a}/{b}/{c}"
Path1(a) == <<"/">> \o a
Path2(a, b) == <<"/">> \o a \o <<"/">> \o b
Path3(a, b, c) == <<"/">> \o a \o <<"/">> \o b \o <<"/">> \o c

---------------------------------------------------------------------------
(* utils/helpers.py: normalization, validation, scope parsing *)

\* A mutated normalizer: lowercases without trimming.
normalize_lower_only(value) ==
    IF value = None THEN None ELSE Lower(value)

normalize_kc_name(value) ==
    IF value = None THEN None ELSE Lower(Strip(value))

\* normalize_kc_name(x) or x
NormOr(x) ==
    IF normalize_kc_name(x) # <<>> THEN normalize_kc_name(x) ELSE x

RESERVED_GROUP_NAMES ==
    { s_admin, s_super_admin, s_user, s_manager, s_member,
      <<"a","d","m","i","n","s">>, <<"u","s","e","r","s">>,
      <<"m","a","n","a","g","e","r","s">>, <<"m","e","m","b","e","r","s">>,
      <<"r","o","l","e">>, <<"r","o","l","e","s">> }

HTTPException(status, detail) == [status |-> status, detail |-> detail]
Ok(value) == [status |-> 200, value |-> value]

\* Python truthiness of an optional string.
Truthy(x) == x \notin { None, <<>> }

\* A mutated validator: the reserved-set test reads the raw name.
validate_raw_reserved(name, kind) ==
    LET n == IF normalize_kc_name(name) \in {None, <<>>} THEN <<>>
             ELSE normalize_kc_name(name)
    IN  IF n = <<>> THEN HTTPException(400, <<kind, "name is required">>)
        ELSE IF name \in RESERVED_GROUP_NAMES
             THEN HTTPException(400, <<kind, "name is reserved", name>>)
        ELSE Ok(n)

\* A mutated validator: the reserved-set test is missing.
validate_required_only(name, kind) ==
    LET n == IF normalize_kc_name(name) \in {None, <<>>} THEN <<>>
             ELSE normalize_kc_name(name)
    IN  IF n = <<>> THEN HTTPException(400, <<kind, "name is required">>)
        ELSE Ok(n)

validate_group_name_not_reserved(name, kind) ==
    LET n == IF normalize_kc_name(name) \in {None, <<>>} THEN <<>>
             ELSE normalize_kc_name(name)
    IN  IF n = <<>> THEN HTTPException(400, <<kind, "name is required">>)
        ELSE IF n \in RESERVED_GROUP_NAMES
             THEN HTTPException(400, <<kind, "name is reserved", name>>)
        ELSE Ok(n)

parse_admin_orgs(groups) ==
    { Parts(Lower(groups[i]))[1] : i \in
        { j \in DOMAIN groups :
            /\ Len(Parts(Lower(groups[j]))) = 2
            /\ Parts(Lower(groups[j]))[2] = s_admin } }

\* A mutated parser: any three-segment path names a managed team.
parse_managed_teams_any_role(groups) ==
    { <<Parts(Lower(groups[i]))[1], Parts(Lower(groups[i]))[2]>> : i \in
        { j \in DOMAIN groups : Len(Parts(Lower(groups[j]))) = 3 } }

parse_managed_teams(groups) ==
    { <<Parts(Lower(groups[i]))[1], Parts(Lower(groups[i]))[2]>> : i \in
        { j \in DOMAIN groups :
            /\ Len(Parts(Lower(groups[j]))) = 3
            /\ Parts(Lower(groups[j]))[3] = s_manager } }

parse_member_teams(groups) ==
    { <<Parts(Lower(groups[i]))[1], Parts(Lower(groups[i]))[2]>> : i \in
        { j \in DOMAIN groups :
            /\ Len(Parts(Lower(groups[j]))) = 3
            /\ Parts(Lower(groups[j]))[3] = s_member } }

\* A mutated parser: super-admin is kept as an organization.
parse_user_orgs_keep_super(groups) ==
    { Parts(Lower(groups[i]))[1] : i \in
        { j \in DOMAIN groups : Len(Parts(Lower(groups[j]))) >= 2 } }

parse_user_orgs(groups) ==
    { Parts(Lower(groups[i]))[1] : i \in
        { j \in DOMAIN groups : Len(Parts(Lower(groups[j]))) >= 2 } }
    \ { s_super_admin }

---------------------------------------------------------------------------
(* core/security.py: the authorization gates *)

Allowed == [status |-> 200]

\* A mutated gate: any path whose first segment is super-admin passes.
check_super_admin_prefix(groups) ==
    IF \E i \in DOMAIN groups :
          /\ Parts(Lower(groups[i])) # <<>>
          /\ Parts(Lower(groups[i]))[1] = s_super_admin
    THEN Allowed
    ELSE HTTPException(403, <<"Super Admin privileges required">>)

check_super_admin(groups) ==
    IF ~ In(Path1(s_super_admin), LowerAll(groups))
    THEN HTTPException(403, <<"Super Admin privileges required">>)
    ELSE Allowed

\* A mutated gate: an admin of any organization passes.
OrgAdminChecker_any_org(org_name, groups) ==
    LET gs == LowerAll(groups)
    IN  IF In(Path1(s_super_admin), gs) THEN Allowed
        ELSE IF \A i \in DOMAIN gs :
                   ~ (Len(Parts(gs[i])) = 2 /\ Parts(gs[i])[2] = s_admin)
             THEN HTTPException(403, <<"Not an admin of organization", NormOr(org_name)>>)
        ELSE Allowed

OrgAdminChecker(org_name, groups) ==
    LET org == NormOr(org_name)
        gs == LowerAll(groups)
    IN  IF In(Path1(s_super_admin), gs) THEN Allowed
        ELSE IF ~ In(Path2(org, s_admin), gs)
             THEN HTTPException(403, <<"Not an admin of organization", org>>)
        ELSE Allowed

TeamManagerChecker(org_name, team_name, groups) ==
    LET org == NormOr(org_name)
        team == NormOr(team_name)
        gs == LowerAll(groups)
    IN  IF In(Path1(s_super_admin), gs) \/ In(Path2(org, s_admin), gs)
        THEN Allowed
        ELSE IF ~ In(Path3(org, team, s_manager), gs)
             THEN HTTPException(403, <<"Not a manager of team", team>>)
        ELSE Allowed

---------------------------------------------------------------------------
(* services/user_service.py: the scope validation of list_users, up to the
   first read of the provider *)

list_users_scope(org_name, team_name, groups) ==
    LET gs == LowerAll(groups)
        is_super == In(Path1(s_super_admin), gs)
        admin_orgs == parse_admin_orgs(gs)
        managed_teams == parse_managed_teams(gs)
    IN  IF Truthy(team_name) /\ ~ Truthy(org_name)
        THEN HTTPException(400, <<"team_name requires org_name">>)
        ELSE IF Truthy(org_name) /\ Truthy(team_name)
        THEN IF /\ ~ is_super
                /\ <<org_name, team_name>> \notin managed_teams
                /\ org_name \notin admin_orgs
             THEN HTTPException(403, <<"Not allowed to list users for this team">>)
             ELSE Allowed
        ELSE IF Truthy(org_name)
        THEN IF ~ is_super /\ org_name \notin admin_orgs
             THEN HTTPException(403, <<"Not allowed to list users for this org">>)
             ELSE Allowed
        ELSE IF is_super \/ admin_orgs # {} \/ managed_teams # {}
        THEN Allowed
        ELSE HTTPException(403, <<"Not allowed to list users">>)

---------------------------------------------------------------------------
(* The super-admin test as each operation writes it *)

\* groups = [g.lower() for g in groups]; "/super-admin" in groups
is_super_lowered(groups) == In(Path1(s_super_admin), LowerAll(groups))

\* groups = user.get("groups", []) or []; "/super-admin" in groups
is_super_raw(groups) == In(Path1(s_super_admin), groups)

super_admin_verdicts(groups) ==
    [ check_super_admin |-> check_super_admin(groups).status = 200,
      OrgAdminChecker |-> is_super_lowered(groups),
      TeamManagerChecker |-> is_super_lowered(groups),
      list_users |-> is_super_lowered(groups),
      create_user |-> is_super_lowered(groups),
      get_user |-> is_super_raw(groups),
      list_organizations |-> is_super_raw(groups),
      get_my_memberships |-> is_super_lowered(groups) ]

---------------------------------------------------------------------------
(* Pure-function checks: Init draws the inputs, the actions apply a function *)

\* Longest groups claim drawn.
MaxGroupsLen == 2

SeqsUpTo(S, n) == UNION { [1..k -> S] : k \in 0..n }

GroupPaths ==
    { Path1(s_super_admin),
      <<"/","S","u","p","e","r","-","A","d","m","i","n">>,
      Path2(s_super_admin, s_admin),
      Path2(s_acme, s_admin),
      <<"/","A","c","m","e","/","A","d","m","i","n">>,
      Path2(s_acme, s_admin) \o <<"/">>,
      Path3(s_acme, s_pay, s_manager),
      <<"/","a","c","m","e","/","/","p","a","y","/","m","a","n","a","g","e","r">>,
      Path3(s_acme, s_pay, s_member),
      Path2(s_beta, s_admin) }

OrgParams == { s_acme, <<" ","A","c","m","e"," ">>, s_beta }
TeamParams == { s_pay, <<"P","a","y"," ">>, <<"d","e","v">> }
RawNames ==
    { s_acme, <<" ","A","c","m","e"," ">>, <<>>, <<" "," ">>,
      <<"A","d","m","i","n">>, <<" ","a","d","m","i","n">>, s_super_admin,
      <<"M","e","m","b","e","r","s"," ">>, s_pay, <<"a"," ","b">>,
      <<"a","d","m","i","n","x">>, <<"a","/","b">> }
Kinds == { "Organization", "Team" }

\* Group paths given to the scope parsers: right and wrong depths, right and
\* wrong role segments, empty segments, mixed case, padded segments.
ParsePaths ==
    { <<>>,
      Path1(s_acme),
      Path2(s_acme, s_admin),
      <<"/","A","c","m","e","/","A","d","m","i","n">>,
      <<"/"," ","a","c","m","e"," ","/","a","d","m","i","n">>,
      Path2(s_acme, s_user),
      Path2(s_super_admin, s_admin),
      Path3(s_super_admin, s_pay, s_manager),
      Path3(s_acme, s_pay, s_manager),
      <<"/","a","c","m","e","/","/","p","a","y","/","m","a","n","a","g","e","r">>,
      Path3(s_acme, s_pay, s_member),
      Path3(s_acme, s_pay, s_admin) }

SysIdle ==
    /\ kcGroups = {}
    /\ kcUsers = {}
    /\ kcMembers = {}
    /\ kcNextId = 1
    /\ req = <<>>
    /\ nReq = 0
    /\ nFail = 0
    /\ hComplete = {}
    /\ hRoleDeleted = {}

InitPure ==
    /\ SysIdle
    /\ out = [fn |-> "none"]
    /\ cookies = NoCookies
    /\ \/ /\ inGroups \in SeqsUpTo(GroupPaths, MaxGroupsLen)
          /\ inOrg \in OrgParams
          /\ inTeam \in TeamParams
          /\ inName = s_acme
       \/ /\ inGroups = <<>>
          /\ inOrg = s_acme
          /\ inTeam = s_pay
          /\ inName \in RawNames
       \/ /\ inGroups \in SeqsUpTo(ParsePaths, MaxGroupsLen)
          /\ inOrg = s_acme
          /\ inTeam = s_pay
          /\ inName = s_acme

\* Each behaviour applies one function, once, to the inputs drawn.
Fresh == out.fn = "none"

CallCheckSuperAdmin ==
    /\ Fresh
    /\ out' = [fn |-> "check_super_admin", res |-> check_super_admin(inGroups)]
    /\ UNCHANGED <<sysVars, inGroups, inOrg, inTeam, inName, cookies>>

CallOrgAdminChecker ==
    /\ Fresh
    /\ out' = [fn |-> "OrgAdminChecker", res |-> OrgAdminChecker(inOrg, inGroups)]
    /\ UNCHANGED <<sysVars, inGroups, inOrg, inTeam, inName, cookies>>

CallTeamManagerChecker ==
    /\ Fresh
    /\ out' = [fn |-> "TeamManagerChecker",
               res |-> TeamManagerChecker(inOrg, inTeam, inGroups)]
    /\ UNCHANGED <<sysVars, inGroups, inOrg, inTeam, inName, cookies>>

CallValidateName ==
    /\ Fresh
    /\ \E kind \in Kinds :
          out' = [fn |-> "validate_group_name_not_reserved", kind |-> kind,
                  res |-> validate_group_name_not_reserved(inName, kind)]
    /\ UNCHANGED <<sysVars, inGroups, inOrg, inTeam, inName, cookies>>

CallParseAdminOrgs ==
    /\ Fresh
    /\ out' = [fn |-> "parse_admin_orgs", res |-> parse_admin_orgs(inGroups)]
    /\ UNCHANGED <<sysVars, inGroups, inOrg, inTeam, inName, cookies>>

CallParseManagedTeams ==
    /\ Fresh
    /\ out' = [fn |-> "parse_managed_teams", res |-> parse_managed_teams(inGroups)]
    /\ UNCHANGED <<sysVars, inGroups, inOrg, inTeam, inName, cookies>>

CallParseMemberTeams ==
    /\ Fresh
    /\ out' = [fn |-> "parse_member_teams", res |-> parse_member_teams(inGroups)]
    /\ UNCHANGED <<sysVars, inGroups, inOrg, inTeam, inName, cookies>>

CallParseUserOrgs ==
    /\ Fresh
    /\ out' = [fn |-> "parse_user_orgs", res |-> parse_user_orgs(inGroups)]
    /\ UNCHANGED <<sysVars, inGroups, inOrg, inTeam, inName, cookies>>

CallListUsers ==
    /\ Fresh
    /\ \E org_name \in { None, inOrg }, team_name \in { None, inTeam } :
          out' = [fn |-> "list_users", org_name |-> org_name, team_name |-> team_name,
                  res |-> list_users_scope(org_name, team_name, inGroups)]
    /\ UNCHANGED <<sysVars, inGroups, inOrg, inTeam, inName, cookies>>

CallSuperAdminVerdicts ==
    /\ Fresh
    /\ out' = [fn |-> "is_super_admin",
               res |-> super_admin_verdicts(inGroups)]
    /\ UNCHANGED <<sysVars, inGroups, inOrg, inTeam, inName, cookies>>

NextPure ==
    \/ CallCheckSuperAdmin
    \/ CallOrgAdminChecker
    \/ CallTeamManagerChecker
    \/ CallValidateName
    \/ CallParseAdminOrgs
    \/ CallParseManagedTeams
    \/ CallParseMemberTeams
    \/ CallParseUserOrgs
    \/ CallListUsers
    \/ CallSuperAdminVerdicts

SpecPure == InitPure /\ [][NextPure]_vars

---------------------------------------------------------------------------
(* Section 4.2/4.3 of the specification, stated without the gate code *)

\* The one-segment path /super-admin: a slash followed by the single segment.
IsSuperAdminPath(g) == Split(Lower(g), "/") = << <<>>, s_super_admin >>
IsSuperAdmin(groups) == \E i \in DOMAIN groups : IsSuperAdminPath(groups[i])

\* OrgAdmin(org): is_super_admin OR org in admin_orgs
OrgAdminPredicate(org, groups) ==
    \/ IsSuperAdmin(groups)
    \/ normalize_kc_name(org) \in parse_admin_orgs(groups)

\* TeamManager(org, team): is_super_admin OR org in admin_orgs OR (org, team) in managed_teams
TeamManagerPredicate(org, team, groups) ==
    \/ IsSuperAdmin(groups)
    \/ normalize_kc_name(org) \in parse_admin_orgs(groups)
    \/ <<normalize_kc_name(org), normalize_kc_name(team)>> \in parse_managed_teams(groups)

\* C2: the OrgAdmin gate allows iff the caller is super-admin or the
\* normalized org is in parse_admin_orgs(groups), for every groups list
\* (paths with empty segments included) and every org parameter.
C2_GateAgreesWithParser ==
    out.fn = "OrgAdminChecker" =>
        ((out.res.status = 200) <=> OrgAdminPredicate(inOrg, inGroups))

\* C3: the TeamManager gate allows iff the caller is super-admin, or org is
\* in admin_orgs, or (org, team) is in managed_teams, for every groups list
\* and every (org, team) parameter pair.
C3_TeamGateAgreesWithParser ==
    out.fn = "TeamManagerChecker" =>
        ((out.res.status = 200) <=> TeamManagerPredicate(inOrg, inTeam, inGroups))

\* C4: check_super_admin allows iff the groups contain the one-segment path
\* /super-admin (compared in lowercase); a list whose entries all have two or
\* more segments, such as /super-admin/admin, is denied with 403.
C4_SuperAdminExactPath ==
    out.fn = "check_super_admin" =>
        /\ (out.res.status = 200) <=> IsSuperAdmin(inGroups)
        /\ out.res.status \in {200, 403}
        /\ (\A i \in DOMAIN inGroups : Len(Parts(inGroups[i])) >= 2)
              => out.res.status = 403

\* C4 witness: the gate was applied to a claim whose only super-admin-related
\* entry is the deeper path /super-admin/admin, and denied it.
C4_Witness ==
    /\ out.fn = "check_super_admin"
    /\ inGroups = << Path2(s_super_admin, s_admin) >>
    /\ out.res.status = 403

\* The ways of cutting a whitespace prefix of length a and a whitespace suffix
\* of length b off raw so that what is left neither starts nor ends with
\* whitespace.
TrimCuts(raw) ==
    { ab \in (0..Len(raw)) \X (0..Len(raw)) :
        /\ ab[1] + ab[2] <= Len(raw)
        /\ \A i \in 1..ab[1] : raw[i] \in Whitespace
        /\ \A i \in (Len(raw) - ab[2] + 1)..Len(raw) : raw[i] \in Whitespace
        /\ ab[1] + ab[2] < Len(raw) =>
              /\ raw[ab[1] + 1] \notin Whitespace
              /\ raw[Len(raw) - ab[2]] \notin Whitespace }

\* raw with its surrounding whitespace dropped and its letters lowercased.
NormalForms(raw) ==
    { Lower(SubSeq(raw, ab[1] + 1, Len(raw) - ab[2])) : ab \in TrimCuts(raw) }

\* C5: the validator returns the trimmed, lowercased name when that form is
\* non-empty and not reserved, the empty-name error when it is empty, and the
\* reserved-name error when it is reserved, whatever the input's case or
\* surrounding whitespace.
C5_ValidateName ==
    out.fn = "validate_group_name_not_reserved" =>
        /\ NormalForms(inName) # {}
        /\ \A n \in NormalForms(inName) :
              /\ n = <<>> =>
                    /\ out.res.status = 400
                    /\ out.res.detail = <<out.kind, "name is required">>
              /\ (n # <<>> /\ n \in RESERVED_GROUP_NAMES) =>
                    /\ out.res.status = 400
                    /\ out.res.detail = <<out.kind, "name is reserved", inName>>
              /\ (n # <<>> /\ n \notin RESERVED_GROUP_NAMES) =>
                    out.res = Ok(n)

\* C5 witness: a reserved name in mixed case with surrounding whitespace was
\* rejected as reserved.
C5_Witness ==
    /\ out.fn = "validate_group_name_not_reserved"
    /\ inName = <<"M","e","m","b","e","r","s"," ">>
    /\ out.res.status = 400
    /\ out.res.detail[2] = "name is reserved"

---------------------------------------------------------------------------
(* The identity provider behind the admin client (section 6 of the spec) *)

NoUser == "none"

KcIds(G) == { g.id : g \in G }
KcGroup(G, id) == CHOOSE g \in G : g.id = id
KcChildNamed(G, pid, name) == { g \in G : g.parent = pid /\ g.name = name }

RECURSIVE KcWalk(_, _, _, _)
KcWalk(G, segs, i, pid) ==
    IF i > Len(segs) THEN pid
    ELSE IF KcChildNamed(G, pid, segs[i]) = {} THEN 0
    ELSE KcWalk(G, segs, i + 1,
                (CHOOSE g \in KcChildNamed(G, pid, segs[i]) : TRUE).id)

\* kc.get_group_by_path(path): the id of the group at that path, 0 for none.
kc_get_group_by_path(G, path) ==
    LET segs == Split(path, "/")
    IN  IF Len(segs) < 2 \/ segs[1] # <<>> THEN 0
        ELSE KcWalk(G, Tail(segs), 1, 0)

\* kc.get_user_id(username): the user's id, NoUser for None.
kc_get_user_id(U, username) ==
    IF \E u \in U : u.username = Lower(username)
    THEN (CHOOSE u \in U : u.username = Lower(username)).id
    ELSE NoUser

\* kc.create_group(...) answers 409 for a sibling of that name, 404 for a
\* missing parent: both reach the caller as KeycloakError.
KcCreateRejected(G, name, parent) ==
    \/ KcChildNamed(G, parent, name) # {}
    \/ parent # 0 /\ parent \notin KcIds(G)

RECURSIVE KcSubtree(_, _)
KcSubtree(G, ids) ==
    LET more == ids \cup { g.id : g \in { h \in G : h.parent \in ids } }
    IN  IF more = ids THEN ids ELSE KcSubtree(G, more)

\* kc.delete_group(id): the group, its descendants and their memberships go.
KcGroupsAfterDelete(G, id) == { g \in G : g.id \notin KcSubtree(G, {id}) }
KcMembersAfterDelete(G, M, id) == { m \in M : m[2] \notin KcSubtree(G, {id}) }

\* The path of an existing group, as get_user_groups and tokens report it.
RECURSIVE KcPath(_, _)
KcPath(G, id) ==
    LET g == KcGroup(G, id)
    IN  IF g.parent = 0 THEN Path1(g.name)
        ELSE KcPath(G, g.parent) \o Path1(g.name)

---------------------------------------------------------------------------
(* utils/helpers.py: lookups through the admin client.  kcError is whether
   the provider call raised KeycloakError. *)

get_group_id_by_path(G, path, kcError) ==
    IF kcError THEN 0 ELSE kc_get_group_by_path(G, Lower(Strip(path)))

---------------------------------------------------------------------------
(* Requests: one execution context per process, one provider call per step *)

Procs == { "p1", "p2" }

\* Requests started in one behaviour, and provider calls that may fail in it.
MaxRequests == 2
MaxFailures == 1

\* scopes, stack, all_users, users and enriched are the locals of list_users
\* and of the list_members_recursive calls it is in (one frame per call);
\* requested_orgs, added_to and k (the position in requested_orgs) are the
\* locals of create_user.
EmptyLoc ==
    [ org_name |-> None, team_name |-> None, username |-> None,
      org_id |-> 0, team_id |-> 0, group_id |-> 0, user_id |-> NoUser,
      scopes |-> <<>>, stack |-> <<>>, all_users |-> <<>>, users |-> <<>>,
      enriched |-> <<>>, requested_orgs |-> <<>>, added_to |-> <<>>, k |-> 0 ]

\* The provider reads of a request that raised: the groups whose member
\* fetch (M) and whose group fetch (G) failed, the paths whose lookup failed (P).
NoFails == [ M |-> {}, G |-> {}, P |-> {} ]

\* No listing precedes the request.
NotListed == [ status |-> 0 ]

\* A request: op and args are the endpoint and its inputs (groups is the
\* caller's groups claim), pc the position in the service, loc its locals,
\* res the response.  calls counts the admin-client calls made so far and
\* injected records whether one of them raised on the provider's own account.
\* seq, peers (the requests in flight when this one began), prevOrg (the
\* organization the same client's previous request created) and roots (the
\* top-level group names when this one began), fails (which reads raised)
\* and listed (for a get_user: the answer of the same client's previous
\* request when that was the same caller's list_users without org_name and
\* team_name and the provider answered all its calls) are history kept for
\* the properties; no action reads them.
IdleReq ==
    [ op |-> "none", pc |-> "idle", args |-> [groups |-> <<>>], loc |-> EmptyLoc,
      calls |-> 0, injected |-> FALSE, seq |-> 0, peers |-> {}, prevOrg |-> None,
      roots |-> {}, fails |-> NoFails, listed |-> NotListed, res |-> [status |-> 0] ]

InFlight(p) == req[p].pc \notin { "idle", "done" }

CanBegin(p) ==
    /\ ~ InFlight(p)
    /\ nReq < MaxRequests

\* The request a router hands to its dependencies and service.
NewReq(p, op, a) ==
    [ op |-> op, pc |-> "begin", args |-> a, loc |-> EmptyLoc,
      calls |-> 0, injected |-> FALSE, seq |-> nReq + 1,
      peers |-> { req[q].seq : q \in { x \in Procs \ {p} : InFlight(x) } },
      prevOrg |-> IF /\ req[p].op = "create_organization"
                     /\ req[p].pc = "done"
                     /\ req[p].res.status = 200
                  THEN req[p].loc.org_name ELSE None,
      roots |-> { g.name : g \in { h \in kcGroups : h.parent = 0 } },
      fails |-> NoFails,
      listed |-> IF /\ op = "get_user"
                    /\ req[p].op = "list_users"
                    /\ req[p].pc = "done"
                    /\ ~ req[p].injected
                    /\ req[p].args = [ groups |-> a.groups, org_name |-> None,
                                       team_name |-> None ]
                 THEN req[p].res
                 ELSE NotListed,
      res |-> [status |-> 0] ]

Set(p, r) == req' = [req EXCEPT ![p] = r]
Done(r, res) == [r EXCEPT !.pc = "done", !.res = res]
Called(r, kcError) == [r EXCEPT !.calls = @ + 1, !.injected = @ \/ kcError]

\* Whether the next provider call raises KeycloakError on its own account.
Faults == IF nFail < MaxFailures THEN { FALSE, TRUE } ELSE { FALSE }
Count(kcError) == nFail' = IF kcError THEN nFail + 1 ELSE nFail

\* A KeycloakError no handler catches: the request ends as a server error
\* that carries the failed call.
Propagated(call) == [status |-> 500, detail |-> <<"KeycloakError", call>>]

---------------------------------------------------------------------------
(* routers/org.py + services/org_service.py: create_organization *)

CreateOrganization_Begin(p, Inputs) ==
    /\ CanBegin(p)
    /\ \E a \in Inputs :
          LET r0 == NewReq(p, "create_organization", a)
              gate == check_super_admin(a.groups)
              v == validate_group_name_not_reserved(a.name, "Organization")
              admin == IF Truthy(a.admin_username)
                       THEN normalize_kc_name(a.admin_username) ELSE None
          IN  IF gate.status # 200 THEN Set(p, Done(r0, gate))
              ELSE IF v.status # 200 THEN Set(p, Done(r0, v))
              ELSE Set(p, [r0 EXCEPT !.pc = "co_root",
                                     !.loc.org_name = v.value,
                                     !.loc.username = admin])
    /\ nReq' = nReq + 1
    /\ UNCHANGED <<kcVars, nFail, histVars, pureVars, cookies>>

\* A mutated first step: a conflict adopts the existing group and goes on.
CreateOrganization_Root_adopt(p) ==
    /\ req[p].pc = "co_root"
    /\ \E kcError \in Faults :
          LET r == Called(req[p], kcError)
              same == KcChildNamed(kcGroups, 0, r.loc.org_name)
          IN  /\ Count(kcError)
              /\ IF kcError
                 THEN /\ Set(p, Done(r, HTTPException(409, <<"Organization already exists">>)))
                      /\ UNCHANGED kcVars
                 ELSE IF same # {}
                 THEN /\ Set(p, [r EXCEPT !.pc = "co_admin",
                                          !.loc.org_id = (CHOOSE g \in same : TRUE).id])
                      /\ UNCHANGED kcVars
                 ELSE /\ kcGroups' = kcGroups \cup
                            { [id |-> kcNextId, name |-> r.loc.org_name, parent |-> 0] }
                      /\ kcNextId' = kcNextId + 1
                      /\ Set(p, [r EXCEPT !.pc = "co_admin", !.loc.org_id = kcNextId])
                      /\ UNCHANGED <<kcUsers, kcMembers>>
    /\ UNCHANGED <<nReq, histVars, pureVars, cookies>>

\* 1. Create Org Group
CreateOrganization_Root(p) ==
    /\ req[p].pc = "co_root"
    /\ \E kcError \in Faults :
          LET r == Called(req[p], kcError)
          IN  /\ Count(kcError)
              /\ IF kcError \/ KcCreateRejected(kcGroups, r.loc.org_name, 0)
                 THEN /\ Set(p, Done(r, HTTPException(409, <<"Organization already exists">>)))
                      /\ UNCHANGED kcVars
                 ELSE /\ kcGroups' = kcGroups \cup
                            { [id |-> kcNextId, name |-> r.loc.org_name, parent |-> 0] }
                      /\ kcNextId' = kcNextId + 1
                      /\ Set(p, [r EXCEPT !.pc = "co_admin", !.loc.org_id = kcNextId])
                      /\ UNCHANGED <<kcUsers, kcMembers>>
    /\ UNCHANGED <<nReq, histVars, pureVars, cookies>>

\* A mutated second step: the handler of the first step also covers it.
CreateOrganization_Admin_conflict(p) ==
    /\ req[p].pc = "co_admin"
    /\ \E kcError \in Faults :
          LET r == Called(req[p], kcError)
          IN  /\ Count(kcError)
              /\ IF kcError \/ KcCreateRejected(kcGroups, s_admin, r.loc.org_id)
                 THEN /\ Set(p, Done(r, HTTPException(409, <<"Organization already exists">>)))
                      /\ UNCHANGED kcVars
                 ELSE /\ kcGroups' = kcGroups \cup
                            { [id |-> kcNextId, name |-> s_admin, parent |-> r.loc.org_id] }
                      /\ kcNextId' = kcNextId + 1
                      /\ Set(p, [r EXCEPT !.pc = "co_user"])
                      /\ UNCHANGED <<kcUsers, kcMembers>>
    /\ UNCHANGED <<nReq, histVars, pureVars, cookies>>

\* 2. Create Structure: /Org/admin
CreateOrganization_Admin(p) ==
    /\ req[p].pc = "co_admin"
    /\ \E kcError \in Faults :
          LET r == Called(req[p], kcError)
          IN  /\ Count(kcError)
              /\ IF kcError \/ KcCreateRejected(kcGroups, s_admin, r.loc.org_id)
                 THEN /\ Set(p, Done(r, Propagated("create_group admin")))
                      /\ UNCHANGED kcVars
                 ELSE /\ kcGroups' = kcGroups \cup
                            { [id |-> kcNextId, name |-> s_admin, parent |-> r.loc.org_id] }
                      /\ kcNextId' = kcNextId + 1
                      /\ Set(p, [r EXCEPT !.pc = "co_user"])
                      /\ UNCHANGED <<kcUsers, kcMembers>>
    /\ UNCHANGED <<nReq, histVars, pureVars, cookies>>

\* A mutated third step: the parent is left out, the group lands at top level.
CreateOrganization_User_toplevel(p) ==
    /\ req[p].pc = "co_user"
    /\ \E kcError \in Faults :
          LET r == Called(req[p], kcError)
          IN  /\ Count(kcError)
              /\ IF kcError \/ KcCreateRejected(kcGroups, s_user, 0)
                 THEN /\ Set(p, Done(r, Propagated("create_group user")))
                      /\ UNCHANGED <<kcVars, histVars>>
                 ELSE /\ kcGroups' = kcGroups \cup
                            { [id |-> kcNextId, name |-> s_user, parent |-> 0] }
                      /\ kcNextId' = kcNextId + 1
                      /\ hComplete' = hComplete \cup { r.loc.org_id }
                      /\ IF Truthy(r.loc.username)
                         THEN Set(p, [r EXCEPT !.pc = "co_lookup"])
                         ELSE Set(p, Done(r, [status |-> 200,
                                  detail |-> <<"Org created (No admin assigned)", r.loc.org_name>>]))
                      /\ UNCHANGED <<kcUsers, kcMembers, hRoleDeleted>>
    /\ UNCHANGED <<nReq, pureVars, cookies>>

\* 2. Create Structure: /Org/user
CreateOrganization_User(p) ==
    /\ req[p].pc = "co_user"
    /\ \E kcError \in Faults :
          LET r == Called(req[p], kcError)
          IN  /\ Count(kcError)
              /\ IF kcError \/ KcCreateRejected(kcGroups, s_user, r.loc.org_id)
                 THEN /\ Set(p, Done(r, Propagated("create_group user")))
                      /\ UNCHANGED <<kcVars, histVars>>
                 ELSE /\ kcGroups' = kcGroups \cup
                            { [id |-> kcNextId, name |-> s_user, parent |-> r.loc.org_id] }
                      /\ kcNextId' = kcNextId + 1
                      /\ hComplete' = hComplete \cup { r.loc.org_id }
                      /\ IF Truthy(r.loc.username)
                         THEN Set(p, [r EXCEPT !.pc = "co_lookup"])
                         ELSE Set(p, Done(r, [status |-> 200,
                                  detail |-> <<"Org created (No admin assigned)", r.loc.org_name>>]))
                      /\ UNCHANGED <<kcUsers, kcMembers, hRoleDeleted>>
    /\ UNCHANGED <<nReq, pureVars, cookies>>

\* 3. Add Admin User if provided: get_user_id_by_username
CreateOrganization_Lookup(p) ==
    /\ req[p].pc = "co_lookup"
    /\ \E kcError \in Faults :
          LET r == Called(req[p], kcError)
              uid == kc_get_user_id(kcUsers, r.loc.username)
          IN  /\ Count(kcError)
              /\ IF kcError THEN Set(p, Done(r, Propagated("get_user_id")))
                 ELSE IF uid = NoUser
                      THEN Set(p, Done(r, HTTPException(404, <<"User not found", r.loc.username>>)))
                 ELSE Set(p, [r EXCEPT !.pc = "co_get", !.loc.user_id = uid])
    /\ UNCHANGED <<kcVars, nReq, histVars, pureVars, cookies>>

\* Fetch org again to get children IDs
CreateOrganization_Get(p) ==
    /\ req[p].pc = "co_get"
    /\ \E kcError \in Faults :
          LET r == Called(req[p], kcError)
              admins == KcChildNamed(kcGroups, r.loc.org_id, s_admin)
          IN  /\ Count(kcError)
              /\ IF kcError \/ r.loc.org_id \notin KcIds(kcGroups)
                 THEN Set(p, Done(r, Propagated("get_group")))
                 ELSE IF admins = {}
                      THEN Set(p, Done(r, [status |-> 200,
                               detail |-> <<"Org created (No admin assigned)", r.loc.org_name>>]))
                 ELSE Set(p, [r EXCEPT !.pc = "co_bind",
                                       !.loc.group_id = (CHOOSE g \in admins : TRUE).id])
    /\ UNCHANGED <<kcVars, nReq, histVars, pureVars, cookies>>

\* kc.group_user_add(user_id, admin_group_id)
CreateOrganization_Bind(p) ==
    /\ req[p].pc = "co_bind"
    /\ \E kcError \in Faults :
          LET r == Called(req[p], kcError)
          IN  /\ Count(kcError)
              /\ IF \/ kcError
                    \/ r.loc.group_id \notin KcIds(kcGroups)
                    \/ r.loc.user_id \notin { u.id : u \in kcUsers }
                 THEN /\ Set(p, Done(r, Propagated("group_user_add")))
                      /\ UNCHANGED kcVars
                 ELSE /\ kcMembers' = kcMembers \cup { <<r.loc.user_id, r.loc.group_id>> }
                      /\ Set(p, Done(r, [status |-> 200,
                             detail |-> <<"Org created, user assigned as Admin",
                                          r.loc.org_name, r.loc.username>>]))
                      /\ UNCHANGED <<kcGroups, kcUsers, kcNextId>>
    /\ UNCHANGED <<nReq, histVars, pureVars, cookies>>

---------------------------------------------------------------------------
(* routers/org.py + services/org_service.py: delete_organization *)

RoleNames == { s_admin, s_user, s_manager, s_member }

\* History: the parents that lose a role child when group id is deleted.
RoleParentsOf(G, id) ==
    { g.parent : g \in { h \in G : h.id = id /\ h.parent # 0 /\ h.name \in RoleNames } }

DeleteOrganization_Begin(p, Inputs) ==
    /\ CanBegin(p)
    /\ \E a \in Inputs :
          LET r0 == NewReq(p, "delete_organization", a)
              gate == check_super_admin(a.groups)
          IN  IF gate.status # 200 THEN Set(p, Done(r0, gate))
              ELSE Set(p, [r0 EXCEPT !.pc = "do_resolve",
                                     !.loc.org_name = NormOr(a.org_name)])
    /\ nReq' = nReq + 1
    /\ UNCHANGED <<kcVars, nFail, histVars, pureVars, cookies>>

DeleteOrganization_Resolve(p) ==
    /\ req[p].pc = "do_resolve"
    /\ \E kcError \in Faults :
          LET r == Called(req[p], kcError)
              gid == get_group_id_by_path(kcGroups, Path1(r.loc.org_name), kcError)
          IN  /\ Count(kcError)
              /\ IF gid = 0
                 THEN Set(p, Done(r, HTTPException(404, <<"Organization not found">>)))
                 ELSE Set(p, [r EXCEPT !.pc = "do_delete", !.loc.group_id = gid])
    /\ UNCHANGED <<kcVars, nReq, histVars, pureVars, cookies>>

DeleteOrganization_Delete(p) ==
    /\ req[p].pc = "do_delete"
    /\ \E kcError \in Faults :
          LET r == Called(req[p], kcError)
          IN  /\ Count(kcError)
              /\ IF kcError \/ r.loc.group_id \notin KcIds(kcGroups)
                 THEN /\ Set(p, Done(r, Propagated("delete_group")))
                      /\ UNCHANGED <<kcVars, histVars>>
                 ELSE /\ kcGroups' = KcGroupsAfterDelete(kcGroups, r.loc.group_id)
                      /\ kcMembers' = KcMembersAfterDelete(kcGroups, kcMembers, r.loc.group_id)
                      /\ hRoleDeleted' = hRoleDeleted \cup RoleParentsOf(kcGroups, r.loc.group_id)
                      /\ Set(p, Done(r, [status |-> 200,
                             detail |-> <<"Organization deleted", r.loc.org_name>>]))
                      /\ UNCHANGED <<kcUsers, kcNextId, hComplete>>
    /\ UNCHANGED <<nReq, pureVars, cookies>>

---------------------------------------------------------------------------
(* routers/team.py + services/team_service.py: create_team *)

CreateTeam_Begin(p, Inputs) ==
    /\ CanBegin(p)
    /\ \E a \in Inputs :
          LET r0 == NewReq(p, "create_team", a)
              gate == OrgAdminChecker(a.org_name, a.groups)
              v == validate_group_name_not_reserved(a.name, "Team")
          IN  IF gate.status # 200 THEN Set(p, Done(r0, gate))
              ELSE IF v.status # 200 THEN Set(p, Done(r0, v))
              ELSE Set(p, [r0 EXCEPT !.pc = "ct_org",
                                     !.loc.org_name = NormOr(a.org_name),
                                     !.loc.team_name = v.value,
                                     !.loc.username = normalize_kc_name(a.manager_username)])
    /\ nReq' = nReq + 1
    /\ UNCHANGED <<kcVars, nFail, histVars, pureVars, cookies>>

\* org_group_id = get_group_id_by_path(kc, f"/{org_name}")
CreateTeam_Org(p) ==
    /\ req[p].pc = "ct_org"
    /\ \E kcError \in Faults :
          LET r == Called(req[p], kcError)
              gid == get_group_id_by_path(kcGroups, Path1(r.loc.org_name), kcError)
          IN  /\ Count(kcError)
              /\ IF gid = 0
                 THEN Set(p, Done(r, HTTPException(404, <<"Organization not found">>)))
                 ELSE Set(p, [r EXCEPT !.pc = "ct_team", !.loc.org_id = gid])
    /\ UNCHANGED <<kcVars, nReq, histVars, pureVars, cookies>>

\* Create Team Group
CreateTeam_Team(p) ==
    /\ req[p].pc = "ct_team"
    /\ \E kcError \in Faults :
          LET r == Called(req[p], kcError)
          IN  /\ Count(kcError)
              /\ IF kcError \/ KcCreateRejected(kcGroups, r.loc.team_name, r.loc.org_id)
                 THEN /\ Set(p, Done(r, HTTPException(409, <<"Team already exists">>)))
                      /\ UNCHANGED kcVars
                 ELSE /\ kcGroups' = kcGroups \cup
                            { [id |-> kcNextId, name |-> r.loc.team_name,
                               parent |-> r.loc.org_id] }
                      /\ kcNextId' = kcNextId + 1
                      /\ Set(p, [r EXCEPT !.pc = "ct_manager", !.loc.team_id = kcNextId])
                      /\ UNCHANGED <<kcUsers, kcMembers>>
    /\ UNCHANGED <<nReq, histVars, pureVars, cookies>>

\* Create Subgroups: manager
CreateTeam_Manager(p) ==
    /\ req[p].pc = "ct_manager"
    /\ \E kcError \in Faults :
          LET r == Called(req[p], kcError)
          IN  /\ Count(kcError)
              /\ IF kcError \/ KcCreateRejected(kcGroups, s_manager, r.loc.team_id)
                 THEN /\ Set(p, Done(r, Propagated("create_group manager")))
                      /\ UNCHANGED kcVars
                 ELSE /\ kcGroups' = kcGroups \cup
                            { [id |-> kcNextId, name |-> s_manager, parent |-> r.loc.team_id] }
                      /\ kcNextId' = kcNextId + 1
                      /\ Set(p, [r EXCEPT !.pc = "ct_member"])
                      /\ UNCHANGED <<kcUsers, kcMembers>>
    /\ UNCHANGED <<nReq, histVars, pureVars, cookies>>

\* Create Subgroups: member
CreateTeam_Member(p) ==
    /\ req[p].pc = "ct_member"
    /\ \E kcError \in Faults :
          LET r == Called(req[p], kcError)
          IN  /\ Count(kcError)
              /\ IF kcError \/ KcCreateRejected(kcGroups, s_member, r.loc.team_id)
                 THEN /\ Set(p, Done(r, Propagated("create_group member")))
                      /\ UNCHANGED <<kcVars, histVars>>
                 ELSE /\ kcGroups' = kcGroups \cup
                            { [id |-> kcNextId, name |-> s_member, parent |-> r.loc.team_id] }
                      /\ kcNextId' = kcNextId + 1
                      /\ hComplete' = hComplete \cup { r.loc.team_id }
                      /\ IF Truthy(r.loc.username)
                         THEN Set(p, [r EXCEPT !.pc = "ct_lookup"])
                         ELSE Set(p, Done(r, [status |-> 200,
                                  detail |-> <<"Team created", r.loc.team_name>>]))
                      /\ UNCHANGED <<kcUsers, kcMembers, hRoleDeleted>>
    /\ UNCHANGED <<nReq, pureVars, cookies>>

\* Assign Manager if provided: get_user_id_by_username
CreateTeam_Lookup(p) ==
    /\ req[p].pc = "ct_lookup"
    /\ \E kcError \in Faults :
          LET r == Called(req[p], kcError)
              uid == kc_get_user_id(kcUsers, r.loc.username)
          IN  /\ Count(kcError)
              /\ IF kcError THEN Set(p, Done(r, Propagated("get_user_id")))
                 ELSE IF uid = NoUser
                      THEN Set(p, Done(r, HTTPException(404, <<"User not found", r.loc.username>>)))
                 ELSE Set(p, [r EXCEPT !.pc = "ct_get", !.loc.user_id = uid])
    /\ UNCHANGED <<kcVars, nReq, histVars, pureVars, cookies>>

\* team_details = kc.get_group(team_id)
CreateTeam_Get(p) ==
    /\ req[p].pc = "ct_get"
    /\ \E kcError \in Faults :
          LET r == Called(req[p], kcError)
              managers == KcChildNamed(kcGroups, r.loc.team_id, s_manager)
          IN  /\ Count(kcError)
              /\ IF kcError \/ r.loc.team_id \notin KcIds(kcGroups)
                 THEN Set(p, Done(r, Propagated("get_group")))
                 ELSE IF managers = {}
                      THEN Set(p, Done(r, [status |-> 200,
                               detail |-> <<"Team created", r.loc.team_name>>]))
                 ELSE Set(p, [r EXCEPT !.pc = "ct_bind",
                                       !.loc.group_id = (CHOOSE g \in managers : TRUE).id])
    /\ UNCHANGED <<kcVars, nReq, histVars, pureVars, cookies>>

\* kc.group_user_add(user_id, manager_group_id)
CreateTeam_Bind(p) ==
    /\ req[p].pc = "ct_bind"
    /\ \E kcError \in Faults :
          LET r == Called(req[p], kcError)
          IN  /\ Count(kcError)
              /\ IF \/ kcError
                    \/ r.loc.group_id \notin KcIds(kcGroups)
                    \/ r.loc.user_id \notin { u.id : u \in kcUsers }
                 THEN /\ Set(p, Done(r, Propagated("group_user_add")))
                      /\ UNCHANGED kcVars
                 ELSE /\ kcMembers' = kcMembers \cup { <<r.loc.user_id, r.loc.group_id>> }
                      /\ Set(p, Done(r, [status |-> 200,
                             detail |-> <<"Team created", r.loc.team_name>>]))
                      /\ UNCHANGED <<kcGroups, kcUsers, kcNextId>>
    /\ UNCHANGED <<nReq, histVars, pureVars, cookies>>

---------------------------------------------------------------------------
(* routers/team.py + services/team_service.py: delete_team *)

DeleteTeam_Begin(p, Inputs) ==
    /\ CanBegin(p)
    /\ \E a \in Inputs :
          LET r0 == NewReq(p, "delete_team", a)
              gate == OrgAdminChecker(a.org_name, a.groups)
          IN  IF gate.status # 200 THEN Set(p, Done(r0, gate))
              ELSE Set(p, [r0 EXCEPT !.pc = "dt_resolve",
                                     !.loc.org_name = NormOr(a.org_name),
                                     !.loc.team_name = NormOr(a.team_name)])
    /\ nReq' = nReq + 1
    /\ UNCHANGED <<kcVars, nFail, histVars, pureVars, cookies>>

\* A mutated lookup: the organization's path is resolved instead of the team's.
DeleteTeam_Resolve_org(p) ==
    /\ req[p].pc = "dt_resolve"
    /\ \E kcError \in Faults :
          LET r == Called(req[p], kcError)
              gid == get_group_id_by_path(kcGroups, Path1(r.loc.org_name), kcError)
          IN  /\ Count(kcError)
              /\ IF gid = 0
                 THEN Set(p, Done(r, HTTPException(404, <<"Team not found">>)))
                 ELSE Set(p, [r EXCEPT !.pc = "dt_delete", !.loc.group_id = gid])
    /\ UNCHANGED <<kcVars, nReq, histVars, pureVars, cookies>>

DeleteTeam_Resolve(p) ==
    /\ req[p].pc = "dt_resolve"
    /\ \E kcError \in Faults :
          LET r == Called(req[p], kcError)
              gid == get_group_id_by_path(kcGroups,
                         Path2(r.loc.org_name, r.loc.team_name), kcError)
          IN  /\ Count(kcError)
              /\ IF gid = 0
                 THEN Set(p, Done(r, HTTPException(404, <<"Team not found">>)))
                 ELSE Set(p, [r EXCEPT !.pc = "dt_delete", !.loc.group_id = gid])
    /\ UNCHANGED <<kcVars, nReq, histVars, pureVars, cookies>>

DeleteTeam_Delete(p) ==
    /\ req[p].pc = "dt_delete"
    /\ \E kcError \in Faults :
          LET r == Called(req[p], kcError)
          IN  /\ Count(kcError)
              /\ IF kcError \/ r.loc.group_id \notin KcIds(kcGroups)
                 THEN /\ Set(p, Done(r, Propagated("delete_group")))
                      /\ UNCHANGED <<kcVars, histVars>>
                 ELSE /\ kcGroups' = KcGroupsAfterDelete(kcGroups, r.loc.group_id)
                      /\ kcMembers' = KcMembersAfterDelete(kcGroups, kcMembers, r.loc.group_id)
                      /\ hRoleDeleted' = hRoleDeleted \cup RoleParentsOf(kcGroups, r.loc.group_id)
                      /\ Set(p, Done(r, [status |-> 200,
                             detail |-> <<"Team deleted", r.loc.team_name, r.loc.org_name>>]))
                      /\ UNCHANGED <<kcUsers, kcNextId, hComplete>>
    /\ UNCHANGED <<nReq, pureVars, cookies>>

---------------------------------------------------------------------------
(* services/org_service.py, services/team_service.py: the steps the bind
   and unbind operations share.  Each is one admin-client call. *)

\* The service prologue: normalize_kc_name(x) or x, for each parameter.
BoundReq(r0, a, team_name) ==
    [r0 EXCEPT !.pc = "lookup",
               !.loc.org_name = NormOr(a.org_name),
               !.loc.team_name = team_name,
               !.loc.username = NormOr(a.username)]

\* user_id = get_user_id_by_username(kc, username)
UserLookup(p) ==
    /\ req[p].pc = "lookup"
    /\ \E kcError \in Faults :
          LET r == Called(req[p], kcError)
              uid == kc_get_user_id(kcUsers, r.loc.username)
          IN  /\ Count(kcError)
              /\ IF kcError THEN Set(p, Done(r, Propagated("get_user_id")))
                 ELSE IF uid = NoUser
                      THEN Set(p, Done(r, HTTPException(404, <<"User not found", r.loc.username>>)))
                 ELSE Set(p, [r EXCEPT !.pc = "resolve", !.loc.user_id = uid])
    /\ UNCHANGED <<kcVars, nReq, histVars, pureVars, cookies>>

\* group_id = get_group_id_by_path(kc, path); if not group_id: raise 404
\* (checked is FALSE where the service has no such test).
GroupResolve(p, path, checked, detail) ==
    /\ req[p].pc = "resolve"
    /\ \E kcError \in Faults :
          LET r == Called(req[p], kcError)
              gid == get_group_id_by_path(kcGroups, path, kcError)
          IN  /\ Count(kcError)
              /\ IF checked /\ gid = 0
                 THEN Set(p, Done(r, HTTPException(404, <<detail>>)))
                 ELSE Set(p, [r EXCEPT !.pc = "apply", !.loc.group_id = gid])
    /\ UNCHANGED <<kcVars, nReq, histVars, pureVars, cookies>>

\* kc.group_user_add(user_id, group_id)
GroupUserAdd(p, message) ==
    /\ req[p].pc = "apply"
    /\ \E kcError \in Faults :
          LET r == Called(req[p], kcError)
          IN  /\ Count(kcError)
              /\ IF \/ kcError
                    \/ r.loc.group_id \notin KcIds(kcGroups)
                    \/ r.loc.user_id \notin { u.id : u \in kcUsers }
                 THEN /\ Set(p, Done(r, Propagated("group_user_add")))
                      /\ UNCHANGED kcVars
                 ELSE /\ kcMembers' = kcMembers \cup { <<r.loc.user_id, r.loc.group_id>> }
                      /\ Set(p, Done(r, [status |-> 200, detail |-> <<message>>]))
                      /\ UNCHANGED <<kcGroups, kcUsers, kcNextId>>
    /\ UNCHANGED <<nReq, histVars, pureVars, cookies>>

\* kc.group_user_remove(user_id, group_id); caught is whether the service
\* turns KeycloakError into 400.  Whether the provider refuses the removal of
\* a user who is not a member is the provider's choice.
GroupUserRemove(p, caught, message) ==
    /\ req[p].pc = "apply"
    /\ \E kcError \in Faults, refused \in BOOLEAN :
          LET r == Called(req[p], kcError)
              absent == \/ r.loc.group_id \notin KcIds(kcGroups)
                        \/ r.loc.user_id \notin { u.id : u \in kcUsers }
              member == <<r.loc.user_id, r.loc.group_id>> \in kcMembers
          IN  /\ Count(kcError)
              /\ refused => ~ absent /\ ~ member /\ ~ kcError
              /\ IF kcError \/ absent \/ refused
                 THEN /\ Set(p, Done(r, IF caught
                                        THEN HTTPException(400, <<"Failed to remove user">>)
                                        ELSE Propagated("group_user_remove")))
                      /\ UNCHANGED kcVars
                 ELSE /\ kcMembers' = kcMembers \ { <<r.loc.user_id, r.loc.group_id>> }
                      /\ Set(p, Done(r, [status |-> 200, detail |-> <<message>>]))
                      /\ UNCHANGED <<kcGroups, kcUsers, kcNextId>>
    /\ UNCHANGED <<nReq, histVars, pureVars, cookies>>

---------------------------------------------------------------------------
(* routers/org.py + services/org_service.py: add_org_admin,
   remove_org_admin, add_org_user *)

AddOrgAdmin_Begin(p, Inputs) ==
    /\ CanBegin(p)
    /\ \E a \in Inputs :
          LET r0 == NewReq(p, "add_org_admin", a)
              gate == check_super_admin(a.groups)
          IN  IF gate.status # 200 THEN Set(p, Done(r0, gate))
              ELSE Set(p, BoundReq(r0, a, None))
    /\ nReq' = nReq + 1
    /\ UNCHANGED <<kcVars, nFail, histVars, pureVars, cookies>>

AddOrgAdmin_Lookup(p) ==
    /\ req[p].op = "add_org_admin"
    /\ UserLookup(p)
AddOrgAdmin_Resolve(p) ==
    /\ req[p].op = "add_org_admin"
    /\ GroupResolve(p, Path2(req[p].loc.org_name, s_admin), TRUE,
                    "Org Admin group not found")
AddOrgAdmin_Apply(p) ==
    /\ req[p].op = "add_org_admin"
    /\ GroupUserAdd(p, "is now Admin of")

RemoveOrgAdmin_Begin(p, Inputs) ==
    /\ CanBegin(p)
    /\ \E a \in Inputs :
          LET r0 == NewReq(p, "remove_org_admin", a)
              gate == check_super_admin(a.groups)
          IN  IF gate.status # 200 THEN Set(p, Done(r0, gate))
              ELSE Set(p, BoundReq(r0, a, None))
    /\ nReq' = nReq + 1
    /\ UNCHANGED <<kcVars, nFail, histVars, pureVars, cookies>>

RemoveOrgAdmin_Lookup(p) ==
    /\ req[p].op = "remove_org_admin"
    /\ UserLookup(p)
RemoveOrgAdmin_Resolve(p) ==
    /\ req[p].op = "remove_org_admin"
    /\ GroupResolve(p, Path2(req[p].loc.org_name, s_admin), FALSE, "")
RemoveOrgAdmin_Apply(p) ==
    /\ req[p].op = "remove_org_admin"
    /\ GroupUserRemove(p, TRUE, "removed from admins")

AddOrgUser_Begin(p, Inputs) ==
    /\ CanBegin(p)
    /\ \E a \in Inputs :
          LET r0 == NewReq(p, "add_org_user", a)
              gate == OrgAdminChecker(a.org_name, a.groups)
          IN  IF gate.status # 200 THEN Set(p, Done(r0, gate))
              ELSE Set(p, BoundReq(r0, a, None))
    /\ nReq' = nReq + 1
    /\ UNCHANGED <<kcVars, nFail, histVars, pureVars, cookies>>

AddOrgUser_Lookup(p) ==
    /\ req[p].op = "add_org_user"
    /\ UserLookup(p)
AddOrgUser_Resolve(p) ==
    /\ req[p].op = "add_org_user"
    /\ GroupResolve(p, Path2(req[p].loc.org_name, s_user), TRUE,
                    "Org User group not found")
AddOrgUser_Apply(p) ==
    /\ req[p].op = "add_org_user"
    /\ GroupUserAdd(p, "added to users")

---------------------------------------------------------------------------
(* routers/team.py + services/team_service.py: add_team_manager,
   remove_team_manager, add_team_member, remove_team_member *)

AddTeamManager_Begin(p, Inputs) ==
    /\ CanBegin(p)
    /\ \E a \in Inputs :
          LET r0 == NewReq(p, "add_team_manager", a)
              gate == OrgAdminChecker(a.org_name, a.groups)
          IN  IF gate.status # 200 THEN Set(p, Done(r0, gate))
              ELSE Set(p, BoundReq(r0, a, NormOr(a.team_name)))
    /\ nReq' = nReq + 1
    /\ UNCHANGED <<kcVars, nFail, histVars, pureVars, cookies>>

AddTeamManager_Lookup(p) ==
    /\ req[p].op = "add_team_manager"
    /\ UserLookup(p)
AddTeamManager_Resolve(p) ==
    /\ req[p].op = "add_team_manager"
    /\ GroupResolve(p, Path3(req[p].loc.org_name,
                    req[p].loc.team_name, s_manager), TRUE,
                    "Group not found")
AddTeamManager_Apply(p) ==
    /\ req[p].op = "add_team_manager"
    /\ GroupUserAdd(p, "added as manager")

RemoveTeamManager_Begin(p, Inputs) ==
    /\ CanBegin(p)
    /\ \E a \in Inputs :
          LET r0 == NewReq(p, "remove_team_manager", a)
              gate == OrgAdminChecker(a.org_name, a.groups)
          IN  IF gate.status # 200 THEN Set(p, Done(r0, gate))
              ELSE Set(p, BoundReq(r0, a, NormOr(a.team_name)))
    /\ nReq' = nReq + 1
    /\ UNCHANGED <<kcVars, nFail, histVars, pureVars, cookies>>

RemoveTeamManager_Lookup(p) ==
    /\ req[p].op = "remove_team_manager"
    /\ UserLookup(p)
RemoveTeamManager_Resolve(p) ==
    /\ req[p].op = "remove_team_manager"
    /\ GroupResolve(p, Path3(req[p].loc.org_name,
                    req[p].loc.team_name, s_manager), TRUE,
                    "Group not found")
RemoveTeamManager_Apply(p) ==
    /\ req[p].op = "remove_team_manager"
    /\ GroupUserRemove(p, FALSE, "removed as manager")

AddTeamMember_Begin(p, Inputs) ==
    /\ CanBegin(p)
    /\ \E a \in Inputs :
          LET r0 == NewReq(p, "add_team_member", a)
              gate == TeamManagerChecker(a.org_name, a.team_name, a.groups)
          IN  IF gate.status # 200 THEN Set(p, Done(r0, gate))
              ELSE Set(p, BoundReq(r0, a, NormOr(a.team_name)))
    /\ nReq' = nReq + 1
    /\ UNCHANGED <<kcVars, nFail, histVars, pureVars, cookies>>

AddTeamMember_Lookup(p) ==
    /\ req[p].op = "add_team_member"
    /\ UserLookup(p)
AddTeamMember_Resolve(p) ==
    /\ req[p].op = "add_team_member"
    /\ GroupResolve(p, Path3(req[p].loc.org_name,
                    req[p].loc.team_name, s_member), TRUE,
                    "Group not found")
AddTeamMember_Apply(p) ==
    /\ req[p].op = "add_team_member"
    /\ GroupUserAdd(p, "added as member")

RemoveTeamMember_Begin(p, Inputs) ==
    /\ CanBegin(p)
    /\ \E a \in Inputs :
          LET r0 == NewReq(p, "remove_team_member", a)
              gate == TeamManagerChecker(a.org_name, a.team_name, a.groups)
          IN  IF gate.status # 200 THEN Set(p, Done(r0, gate))
              ELSE Set(p, BoundReq(r0, a, NormOr(a.team_name)))
    /\ nReq' = nReq + 1
    /\ UNCHANGED <<kcVars, nFail, histVars, pureVars, cookies>>

RemoveTeamMember_Lookup(p) ==
    /\ req[p].op = "remove_team_member"
    /\ UserLookup(p)
RemoveTeamMember_Resolve(p) ==
    /\ req[p].op = "remove_team_member"
    /\ GroupResolve(p, Path3(req[p].loc.org_name,
                    req[p].loc.team_name, s_member), TRUE,
                    "Group not found")
RemoveTeamMember_Apply(p) ==
    /\ req[p].op = "remove_team_member"
    /\ GroupUserRemove(p, FALSE, "removed from team")

---------------------------------------------------------------------------
(* The realm and the requests of the system specifications *)

s_Acme == <<" ","A","c","m","e"," ">>
s_Admin == <<"A","d","m","i","n">>

SuperAdmin == << Path1(s_super_admin) >>
AcmeAdmin == << Path2(s_acme, s_admin) >>
AcmeAdminSlash == << Path2(s_acme, s_admin) \o <<"/">> >>
BetaAdmin == << Path2(s_beta, s_admin) >>
PayManager == << Path3(s_acme, s_pay, s_manager) >>
BlankAdmin == << Path2(<<" ">>, s_admin) >>
BlankManager == << Path3(s_acme, <<" ">>, s_manager) >>

Users == { [id |-> "u-bob", username |-> s_bob] }

PureIdle ==
    /\ inGroups = <<>>
    /\ inOrg = s_acme
    /\ inTeam = s_pay
    /\ inName = s_acme
    /\ out = [fn |-> "none"]
    /\ cookies = NoCookies

\* A realm with no organization yet.
EmptyRealm ==
    /\ kcGroups = {}
    /\ kcMembers = {}
    /\ kcNextId = 1
    /\ hComplete = {}

\* The realm after create_organization("acme"), create_team("acme", "pay")
\* and add_team_manager("acme", "pay", "bob").
SeededRealm ==
    /\ kcGroups = { [id |-> 1, name |-> s_acme, parent |-> 0],
                    [id |-> 2, name |-> s_admin, parent |-> 1],
                    [id |-> 3, name |-> s_user, parent |-> 1],
                    [id |-> 4, name |-> s_pay, parent |-> 1],
                    [id |-> 5, name |-> s_manager, parent |-> 4],
                    [id |-> 6, name |-> s_member, parent |-> 4] }
    /\ kcMembers = { <<"u-bob", 5>> }
    /\ kcNextId = 7
    /\ hComplete = { 1, 4 }

IdleSys ==
    /\ kcUsers = Users
    /\ req = [p \in Procs |-> IdleReq]
    /\ nReq = 0
    /\ nFail = 0
    /\ hRoleDeleted = {}
    /\ PureIdle

---------------------------------------------------------------------------
(* SpecSeq: one client issuing any sequence of the eleven mutating
   operations, each request running to its end before the next begins *)

Callers == { SuperAdmin, AcmeAdmin, AcmeAdminSlash, PayManager }

SeqCreateOrg ==
    [ groups : { SuperAdmin }, name : { s_acme, s_Acme, <<>>, s_Admin },
      admin_username : { None, s_bob, s_eve } ]
    \cup [ groups : { AcmeAdmin }, name : { s_beta }, admin_username : { None } ]
SeqDeleteOrg ==
    [ groups : { SuperAdmin, AcmeAdmin }, org_name : { s_acme } ]
SeqOrgBind ==
    [ groups : Callers, org_name : { s_Acme }, username : { s_bob, s_eve } ]
    \cup [ groups : { BlankAdmin }, org_name : { <<" ">> }, username : { s_bob } ]
SeqCreateTeam ==
    [ groups : { AcmeAdmin }, org_name : { s_acme },
      name : { s_pay, <<"d","e","v">>, <<>>, s_manager },
      manager_username : { None, s_bob, s_eve } ]
    \cup [ groups : { SuperAdmin, AcmeAdminSlash, BetaAdmin, PayManager },
           org_name : { s_acme }, name : { s_pay }, manager_username : { None } ]
    \cup [ groups : { BlankAdmin }, org_name : { <<" ">> }, name : { s_pay },
           manager_username : { None } ]
SeqDeleteTeam ==
    [ groups : Callers, org_name : { s_acme }, team_name : { s_pay, s_admin } ]
SeqTeamBind ==
    [ groups : Callers, org_name : { s_acme }, team_name : { s_pay },
      username : { s_bob, s_eve } ]
    \cup [ groups : { BlankManager }, org_name : { s_acme }, team_name : { <<" ">> },
           username : { s_bob } ]

InitSeq ==
    /\ IdleSys
    /\ EmptyRealm \/ SeededRealm

Client == "p1"

NextSeq ==
    \/ CreateOrganization_Begin(Client, SeqCreateOrg)
    \/ CreateOrganization_Root(Client)
    \/ CreateOrganization_Admin(Client)
    \/ CreateOrganization_User(Client)
    \/ CreateOrganization_Lookup(Client)
    \/ CreateOrganization_Get(Client)
    \/ CreateOrganization_Bind(Client)
    \/ DeleteOrganization_Begin(Client, SeqDeleteOrg)
    \/ DeleteOrganization_Resolve(Client)
    \/ DeleteOrganization_Delete(Client)
    \/ AddOrgAdmin_Begin(Client, SeqOrgBind)
    \/ AddOrgAdmin_Lookup(Client)
    \/ AddOrgAdmin_Resolve(Client)
    \/ AddOrgAdmin_Apply(Client)
    \/ RemoveOrgAdmin_Begin(Client, SeqOrgBind)
    \/ RemoveOrgAdmin_Lookup(Client)
    \/ RemoveOrgAdmin_Resolve(Client)
    \/ RemoveOrgAdmin_Apply(Client)
    \/ AddOrgUser_Begin(Client, SeqOrgBind)
    \/ AddOrgUser_Lookup(Client)
    \/ AddOrgUser_Resolve(Client)
    \/ AddOrgUser_Apply(Client)
    \/ CreateTeam_Begin(Client, SeqCreateTeam)
    \/ CreateTeam_Org(Client)
    \/ CreateTeam_Team(Client)
    \/ CreateTeam_Manager(Client)
    \/ CreateTeam_Member(Client)
    \/ CreateTeam_Lookup(Client)
    \/ CreateTeam_Get(Client)
    \/ CreateTeam_Bind(Client)
    \/ DeleteTeam_Begin(Client, SeqDeleteTeam)
    \/ DeleteTeam_Resolve(Client)
    \/ DeleteTeam_Delete(Client)
    \/ AddTeamManager_Begin(Client, SeqTeamBind)
    \/ AddTeamManager_Lookup(Client)
    \/ AddTeamManager_Resolve(Client)
    \/ AddTeamManager_Apply(Client)
    \/ RemoveTeamManager_Begin(Client, SeqTeamBind)
    \/ RemoveTeamManager_Lookup(Client)
    \/ RemoveTeamManager_Resolve(Client)
    \/ RemoveTeamManager_Apply(Client)
    \/ AddTeamMember_Begin(Client, SeqTeamBind)
    \/ AddTeamMember_Lookup(Client)
    \/ AddTeamMember_Resolve(Client)
    \/ AddTeamMember_Apply(Client)
    \/ RemoveTeamMember_Begin(Client, SeqTeamBind)
    \/ RemoveTeamMember_Lookup(Client)
    \/ RemoveTeamMember_Resolve(Client)
    \/ RemoveTeamMember_Apply(Client)

SpecSeq == InitSeq /\ [][NextSeq]_vars

---------------------------------------------------------------------------
(* Spec: two clients whose lifecycle requests interleave call by call *)

RaceCreateOrg ==
    [ groups : { SuperAdmin }, name : { s_acme, s_Acme }, admin_username : { None } ]
    \cup [ groups : { SuperAdmin }, name : { s_acme }, admin_username : { s_bob } ]
RaceDeleteOrg == [ groups : { SuperAdmin }, org_name : { s_acme } ]
RaceCreateTeam ==
    [ groups : { AcmeAdmin }, org_name : { s_acme }, name : { s_pay },
      manager_username : { None, s_bob } ]
RaceDeleteTeam ==
    [ groups : { AcmeAdmin }, org_name : { s_acme }, team_name : { s_pay, s_admin } ]

Init ==
    /\ IdleSys
    /\ EmptyRealm \/ SeededRealm

Next ==
    \E p \in Procs :
        \/ CreateOrganization_Begin(p, RaceCreateOrg)
        \/ CreateOrganization_Root(p)
        \/ CreateOrganization_Admin(p)
        \/ CreateOrganization_User(p)
        \/ CreateOrganization_Lookup(p)
        \/ CreateOrganization_Get(p)
        \/ CreateOrganization_Bind(p)
        \/ DeleteOrganization_Begin(p, RaceDeleteOrg)
        \/ DeleteOrganization_Resolve(p)
        \/ DeleteOrganization_Delete(p)
        \/ CreateTeam_Begin(p, RaceCreateTeam)
        \/ CreateTeam_Org(p)
        \/ CreateTeam_Team(p)
        \/ CreateTeam_Manager(p)
        \/ CreateTeam_Member(p)
        \/ CreateTeam_Lookup(p)
        \/ CreateTeam_Get(p)
        \/ CreateTeam_Bind(p)
        \/ DeleteTeam_Begin(p, RaceDeleteTeam)
        \/ DeleteTeam_Resolve(p)
        \/ DeleteTeam_Delete(p)

Spec == Init /\ [][Next]_vars

---------------------------------------------------------------------------
(* Properties of the request sequences (SpecSeq) *)

SuperAdminOps ==
    { "create_organization", "delete_organization", "add_org_admin", "remove_org_admin" }
OrgAdminOps ==
    { "add_org_user", "create_team", "delete_team", "add_team_manager",
      "remove_team_manager" }
TeamManagerOps == { "add_team_member", "remove_team_member" }

\* The predicate section 4.3/4.4 names for the request's operation, applied
\* to the requester's groups and the request's own parameters.
Authorized(r) ==
    IF r.op \in SuperAdminOps THEN IsSuperAdmin(r.args.groups)
    ELSE IF r.op \in OrgAdminOps
         THEN OrgAdminPredicate(r.args.org_name, r.args.groups)
    ELSE IF r.op \in TeamManagerOps
         THEN TeamManagerPredicate(r.args.org_name, r.args.team_name, r.args.groups)
    ELSE FALSE

\* The positions whose step is a mutating call to the provider.
MutatingSteps ==
    { "co_root", "co_admin", "co_user", "co_bind", "do_delete",
      "ct_team", "ct_manager", "ct_member", "ct_bind", "dt_delete", "apply" }

RealmUnchanged == kcGroups' = kcGroups /\ kcMembers' = kcMembers

\* C1: in every sequence of requests, a step issues a group or membership
\* mutation, or changes the provider's groups or memberships, only for a
\* request whose groups satisfy its operation's predicate (super-admin,
\* OrgAdmin(org) or TeamManager(org, team)); a request that is denied (403)
\* has made no provider call and leaves groups and memberships unchanged.
C1_MutationsOnlyWhenAuthorized ==
    [][ \A p \in Procs :
          req'[p] # req[p] =>
            /\ (req[p].pc \in MutatingSteps \/ ~ RealmUnchanged)
                  => Authorized(req'[p])
            /\ (req'[p].pc = "done" /\ req'[p].res.status = 403)
                  => (req'[p].calls = 0 /\ RealmUnchanged) ]_vars

\* C1 witness: a manager of acme/pay added bob to /acme/pay/member, and a
\* request can also have been denied.
C1_Witness ==
    /\ req[Client].op = "add_team_member"
    /\ req[Client].args.groups = PayManager
    /\ req[Client].pc = "done"
    /\ req[Client].res.status = 200
    /\ \E g \in kcGroups : g.name = s_member /\ <<"u-bob", g.id>> \in kcMembers

BadName(raw) ==
    \E n \in NormalForms(raw) : n = <<>> \/ n \in RESERVED_GROUP_NAMES

\* C6: a create_organization or create_team request that passed its gate with
\* an empty or reserved name ends at once with the validation error (400),
\* having made no call to the provider, and its step leaves the provider's
\* groups and memberships unchanged.
C6_InvalidNameBeforeAnyCall ==
    [][ \A p \in Procs :
          ( /\ req'[p] # req[p]
            /\ req'[p].op \in { "create_organization", "create_team" }
            /\ BadName(req'[p].args.name)
            /\ req'[p].res.status # 403 )
          => /\ req'[p].pc = "done"
             /\ req'[p].res.status = 400
             /\ req'[p].res.detail[2] \in { "name is required", "name is reserved" }
             /\ req'[p].calls = 0
             /\ RealmUnchanged
             /\ kcNextId' = kcNextId ]_vars

\* C6 witness: an admin of acme asked for a team named manager in the seeded
\* realm and was refused with the reserved-name error.
C6_Witness ==
    /\ req[Client].op = "create_team"
    /\ req[Client].args.name = s_manager
    /\ req[Client].pc = "done"
    /\ req[Client].res.status = 400
    /\ req[Client].res.detail[2] = "name is reserved"
    /\ kcGroups # {}

Resolves(path) == get_group_id_by_path(kcGroups, path, FALSE) # 0

\* C7: when a create_organization succeeded and the same client's next
\* request is create_organization with the same normalized name, the second
\* creates nothing and ends with 409; once the first has succeeded, and
\* throughout the second, /name/admin and /name/user resolve by path.
C7_SecondCreateConflicts ==
    \A p \in Procs :
       LET r == req[p]
       IN  /\ ( /\ r.op = "create_organization"
                /\ r.pc = "done"
                /\ r.res.status = 200 )
              => /\ Resolves(Path2(r.loc.org_name, s_admin))
                 /\ Resolves(Path2(r.loc.org_name, s_user))
           /\ ( /\ r.op = "create_organization"
                /\ r.prevOrg \in NormalForms(r.args.name)
                /\ r.res.status # 403 )
              => /\ r.loc.org_id = 0
                 /\ r.pc \in { "co_root", "done" }
                 /\ r.pc = "done" => r.res.status = 409
                 /\ Resolves(Path2(r.prevOrg, s_admin))
                 /\ Resolves(Path2(r.prevOrg, s_user))

\* C7 witness: acme was created, then " Acme " was refused with 409.
C7_Witness ==
    /\ req[Client].op = "create_organization"
    /\ req[Client].prevOrg = s_acme
    /\ req[Client].args.name = s_Acme
    /\ req[Client].pc = "done"
    /\ req[Client].res.status = 409
    /\ req[Client].calls = 1

\* The steps of the two creating operations that follow the creation of the
\* organization's or team's own group.
LaterSteps ==
    { "co_admin", "co_user", "co_lookup", "co_get", "co_bind",
      "ct_manager", "ct_member", "ct_lookup", "ct_get", "ct_bind" }

\* What a request reports when the step at its position fails.
FailureOf(r) ==
    IF r.pc \in { "co_admin" } THEN { Propagated("create_group admin") }
    ELSE IF r.pc \in { "co_user" } THEN { Propagated("create_group user") }
    ELSE IF r.pc \in { "ct_manager" } THEN { Propagated("create_group manager") }
    ELSE IF r.pc \in { "ct_member" } THEN { Propagated("create_group member") }
    ELSE IF r.pc \in { "co_lookup", "ct_lookup" }
         THEN { Propagated("get_user_id"),
                HTTPException(404, <<"User not found", r.loc.username>>) }
    ELSE IF r.pc \in { "co_get", "ct_get" } THEN { Propagated("get_group") }
    ELSE IF r.pc \in { "co_bind", "ct_bind" } THEN { Propagated("group_user_add") }
    ELSE {}

\* The groups the steps before position r.pc created, looked up in realm G.
EarlierGroupsIn(G, r) ==
    LET own == IF r.op = "create_organization" THEN r.loc.org_id ELSE r.loc.team_id
        first == IF r.op = "create_organization" THEN s_admin ELSE s_manager
        second == IF r.op = "create_organization" THEN s_user ELSE s_member
    IN  /\ own \in KcIds(G)
        /\ r.pc \notin { "co_admin", "ct_manager" }
              => KcChildNamed(G, own, first) # {}
        /\ r.pc \notin { "co_admin", "ct_manager", "co_user", "ct_member" }
              => KcChildNamed(G, own, second) # {}

\* C10: a step of create_organization or create_team that follows the
\* creation of the organization's or team's group never removes a group or a
\* membership; when such a step fails, the request ends with the report of
\* that step's failure, the provider's groups and memberships are as the step
\* found them, and every group the earlier steps created is still there.
C10_NoRollback ==
    [][ \A p \in Procs :
          ( /\ req'[p] # req[p]
            /\ req[p].op \in { "create_organization", "create_team" }
            /\ req[p].pc \in LaterSteps )
          => /\ kcGroups \subseteq kcGroups'
             /\ kcMembers \subseteq kcMembers'
             /\ (req'[p].pc = "done" /\ req'[p].res.status # 200)
                   => /\ req'[p].res \in FailureOf(req[p])
                      /\ RealmUnchanged
                      /\ EarlierGroupsIn(kcGroups', req[p]) ]_vars

\* C10 witness: create_organization ended with the failure of its third
\* step, and the organization is there with its admin child and no user child.
C10_Witness ==
    /\ req[Client].op = "create_organization"
    /\ req[Client].pc = "done"
    /\ req[Client].res = Propagated("create_group user")
    /\ req[Client].loc.org_id \in KcIds(kcGroups)
    /\ KcChildNamed(kcGroups, req[Client].loc.org_id, s_admin) # {}
    /\ KcChildNamed(kcGroups, req[Client].loc.org_id, s_user) = {}

---------------------------------------------------------------------------
(* Properties of the interleaved lifecycle requests (Spec) *)

\* p's and q's requests are two create_organization calls with the same
\* normalized name that overlapped each other and no third request: p's began
\* while no other request was in flight, for a name no organization had, and
\* q's was the next request to begin, before p's ended; no provider call of
\* either raised an error of its own and the initial admin, if any, is a
\* known user.
RacingCreates(p, q) ==
    /\ p # q
    /\ req[p].op = "create_organization"
    /\ req[q].op = "create_organization"
    /\ req[p].peers = {}
    /\ req[q].seq = req[p].seq + 1
    /\ req[p].seq \in req[q].peers
    /\ NormalForms(req[p].args.name) = NormalForms(req[q].args.name)
    /\ \A x \in { p, q } :
          /\ req[x].res.status \notin { 400, 403 }
          /\ ~ req[x].injected
          /\ Truthy(req[x].loc.username)
                => kc_get_user_id(kcUsers, req[x].loc.username) # NoUser
    /\ \A n \in NormalForms(req[p].args.name) : n \notin req[p].roots

\* C8: of two overlapping create_organization calls with the same normalized
\* name, once both have ended exactly one has created the root group and
\* succeeded; the other ended with 409 after its single provider call; there
\* is one root of that name and it has exactly one admin child and one user
\* child.
C8_OneWinner ==
    \A p, q \in Procs :
       (RacingCreates(p, q) /\ req[p].pc = "done" /\ req[q].pc = "done")
       => \E w \in { p, q } :
             LET l == CHOOSE x \in { p, q } : x # w
             IN  /\ req[w].loc.org_id # 0
                 /\ req[w].res.status = 200
                 /\ req[l].loc.org_id = 0
                 /\ req[l].res.status = 409
                 /\ req[l].calls = 1
                 /\ KcChildNamed(kcGroups, 0, req[w].loc.org_name)
                       = { [id |-> req[w].loc.org_id, name |-> req[w].loc.org_name,
                            parent |-> 0] }
                 /\ Cardinality(KcChildNamed(kcGroups, req[w].loc.org_id, s_admin)) = 1
                 /\ Cardinality(KcChildNamed(kcGroups, req[w].loc.org_id, s_user)) = 1

\* C8 witness: the call that began second, under another spelling of the
\* name, created the root; the call that began first lost with 409.
C8_Witness ==
    /\ RacingCreates("p1", "p2")
    /\ req["p1"].args.name = s_acme
    /\ req["p2"].args.name = s_Acme
    /\ req["p1"].pc = "done"
    /\ req["p2"].pc = "done"
    /\ req["p1"].res.status = 409
    /\ req["p2"].res.status = 200

HasChildren(g, names) ==
    \A n \in names : KcChildNamed(kcGroups, g.id, n) # {}

IsOrgGroup(g) == g.parent = 0 /\ g.name # s_super_admin
IsTeamGroup(g) ==
    /\ g.parent # 0
    /\ g.name \notin RoleNames
    /\ \E o \in kcGroups : o.id = g.parent /\ IsOrgGroup(o)

\* C9: in every reachable state every organization group has its admin and
\* user children and every team group its manager and member children.
C9_RoleChildrenAlways ==
    \A g \in kcGroups :
       /\ IsOrgGroup(g) => HasChildren(g, { s_admin, s_user })
       /\ IsTeamGroup(g) => HasChildren(g, { s_manager, s_member })

\* C9 as amended: every organization group has its admin and user children,
\* and every team group its manager and member children, from the moment the
\* creating call has created the second child, for as long as none of its
\* role children has been deleted through delete_team.
C9_RoleChildrenOnceCreated ==
    \A g \in kcGroups :
       (g.id \in hComplete /\ g.id \notin hRoleDeleted) =>
          /\ IsOrgGroup(g) => HasChildren(g, { s_admin, s_user })
          /\ IsTeamGroup(g) => HasChildren(g, { s_manager, s_member })
          /\ IsOrgGroup(g) \/ IsTeamGroup(g)

\* C9 witness: one client's create_team has completed while the other
\* client's create_organization failed part-way, leaving a root without its
\* user child.
C9_Witness ==
    \E p, q \in Procs :
       /\ req[p].op = "create_team"
       /\ req[p].pc = "done"
       /\ req[p].res.status = 200
       /\ req[p].loc.team_id \in KcIds(kcGroups) \cap hComplete
       /\ req[q].op = "create_organization"
       /\ req[q].pc = "done"
       /\ req[q].res.status = 500

---------------------------------------------------------------------------
(* Deletion (SpecSeq) *)

\* Whether group id lies in the subtree of group root in realm G, found by
\* climbing from id towards the top level.
RECURSIVE IsUnder(_, _, _)
IsUnder(G, id, root) ==
    IF id = root THEN TRUE
    ELSE IF id = 0 \/ id \notin KcIds(G) THEN FALSE
    ELSE IsUnder(G, KcGroup(G, id).parent, root)

\* The path a delete request names, from its normalized parameters.
DeletePaths(r) ==
    IF r.op = "delete_organization"
    THEN { Path1(o) : o \in NormalForms(r.args.org_name) }
    ELSE { Path2(o, t) : <<o, t>> \in
             NormalForms(r.args.org_name) \X NormalForms(r.args.team_name) }

\* C11: delete_organization / delete_team whose path does not resolve ends
\* with 404 after its lookup and changes nothing; when the path resolves the
\* request makes one delete call for that group, and when that call succeeds
\* no path of a group that was under the deleted root resolves any more, no
\* membership in a group under it is left, and the groups and memberships
\* outside that subtree are exactly as before.
C11_DeleteFrame ==
    [][ \A p \in Procs :
          ( /\ req'[p] # req[p]
            /\ req[p].op \in { "delete_organization", "delete_team" }
            /\ InFlight(p) )
          => \A path \in DeletePaths(req[p]) :
               LET root == kc_get_group_by_path(kcGroups, path)
                   under(id) == IsUnder(kcGroups, id, root)
               IN  /\ req[p].pc \in { "do_resolve", "dt_resolve" } =>
                        /\ RealmUnchanged
                        /\ root = 0 =>
                              /\ req'[p].pc = "done"
                              /\ req'[p].res.status = 404
                              /\ req'[p].calls = 1
                        /\ req'[p].pc # "done" => req'[p].loc.group_id = root
                   /\ req[p].pc \in { "do_delete", "dt_delete" } =>
                        /\ req'[p].pc = "done"
                        /\ req'[p].calls = 2
                        /\ req'[p].res.status # 200 => RealmUnchanged
                        /\ req'[p].res.status = 200 =>
                              /\ root # 0
                              /\ \A g \in kcGroups :
                                    under(g.id) =>
                                       kc_get_group_by_path(kcGroups',
                                           KcPath(kcGroups, g.id)) = 0
                              /\ \A m \in kcMembers' : ~ under(m[2])
                              /\ kcGroups' = { g \in kcGroups : ~ under(g.id) }
                              /\ kcMembers' = { m \in kcMembers : ~ under(m[2]) } ]_vars

\* C11 witness: delete_team removed /acme/pay, of which bob was a manager,
\* from the seeded realm; the organization and its role groups are still there.
C11_Witness ==
    /\ req[Client].op = "delete_team"
    /\ req[Client].args.team_name = s_pay
    /\ req[Client].pc = "done"
    /\ req[Client].res.status = 200
    /\ kcMembers = {}
    /\ ~ Resolves(Path3(s_acme, s_pay, s_manager))
    /\ Resolves(Path2(s_acme, s_admin))

---------------------------------------------------------------------------
(* Teams and their organization (Spec) *)

\* C12: no group exists without its parent, and a create_team step that finds
\* the parent organization missing (at the existence check, or at the creation
\* of the team group after the organization was deleted in between) ends the
\* request with 404 and creates no group.
C12_TeamNeedsOrg ==
    [][ /\ \A g \in kcGroups' : g.parent # 0 => g.parent \in KcIds(kcGroups')
        /\ \A p \in Procs :
             ( /\ req'[p] # req[p]
               /\ req[p].op = "create_team"
               /\ \/ /\ req[p].pc = "ct_org"
                     /\ ~ Resolves(Path1(req[p].loc.org_name))
                  \/ /\ req[p].pc = "ct_team"
                     /\ req[p].loc.org_id \notin KcIds(kcGroups) )
             => /\ req'[p].pc = "done"
                /\ req'[p].res.status = 404
                /\ kcGroups' = kcGroups ]_vars


---------------------------------------------------------------------------
(* Binding and unbinding roles (SpecSeq) *)

BindOps ==
    { "add_org_admin", "remove_org_admin", "add_org_user",
      "add_team_manager", "remove_team_manager",
      "add_team_member", "remove_team_member" }

\* The role group a bind or unbind request addresses.
RolePath(r) ==
    IF r.op \in { "add_org_admin", "remove_org_admin" }
    THEN Path2(r.loc.org_name, s_admin)
    ELSE IF r.op = "add_org_user"
    THEN Path2(r.loc.org_name, s_user)
    ELSE IF r.op \in { "add_team_manager", "remove_team_manager" }
    THEN Path3(r.loc.org_name, r.loc.team_name, s_manager)
    ELSE Path3(r.loc.org_name, r.loc.team_name, s_member)

\* C13: a bind or unbind request whose username the provider does not know
\* ends at the user lookup with 404, and one whose user is known but whose
\* role group path does not resolve ends with 404; in both cases the
\* memberships are left as they were.
C13_BindNotFound ==
    [][ \A p \in Procs :
          ( /\ req'[p] # req[p]
            /\ req[p].op \in BindOps
            /\ InFlight(p) )
          => /\ ( /\ req[p].pc = "lookup"
                  /\ ~ req'[p].injected
                  /\ kc_get_user_id(kcUsers, req[p].loc.username) = NoUser )
                => /\ req'[p].pc = "done"
                   /\ req'[p].res.status = 404
                   /\ kcMembers' = kcMembers
             /\ ( /\ req[p].pc \in { "resolve", "apply" }
                  /\ ~ Resolves(RolePath(req[p])) )
                => /\ kcMembers' = kcMembers
                   /\ req'[p].pc = "done" => req'[p].res.status = 404 ]_vars

RemoveOps == { "remove_org_admin", "remove_team_manager", "remove_team_member" }

\* The removal call of one of the three remove operations.
RemoveApply(p) ==
    \/ RemoveOrgAdmin_Apply(p)
    \/ RemoveTeamManager_Apply(p)
    \/ RemoveTeamMember_Apply(p)

\* A remove request about to ask the provider to remove a known user from an
\* existing role group the user is not a member of.
RemovingNonMember(p) ==
    /\ req[p].op \in RemoveOps
    /\ req[p].pc = "apply"
    /\ req[p].loc.group_id \in KcIds(kcGroups)
    /\ req[p].loc.user_id \in { u.id : u \in kcUsers }
    /\ <<req[p].loc.user_id, req[p].loc.group_id>> \notin kcMembers

\* C14: removing a user who is not a member of the role group has one
\* outcome, success (200) or not found (404), whichever way the provider
\* answers the removal, and leaves the memberships as they were.
C14_RemoveNonMemberFixed ==
    \A p \in Procs :
       RemovingNonMember(p)
       => \E k \in { 200, 404 } :
             ~ ENABLED ( /\ RemoveApply(p)
                         /\ ~ req'[p].injected
                         /\ \/ req'[p].res.status # k
                            \/ kcMembers' # kcMembers )

---------------------------------------------------------------------------
(* The scope parsers (SpecPure) *)

\* The non-empty segments of a path, as the maximal slash-free runs
\* <<first position, last position>>.
Runs(g) ==
    { ab \in (1..Len(g)) \X (1..Len(g)) :
        /\ ab[1] <= ab[2]
        /\ \A i \in ab[1]..ab[2] : g[i] # "/"
        /\ ab[1] = 1 \/ g[ab[1] - 1] = "/"
        /\ ab[2] = Len(g) \/ g[ab[2] + 1] = "/" }

SegmentCount(g) == Cardinality(Runs(g))

NthSegment(g, n) ==
    LET ab == CHOOSE x \in Runs(g) :
                 Cardinality({ y \in Runs(g) : y[1] < x[1] }) = n - 1
    IN  SubSeq(g, ab[1], ab[2])

\* The entries of groups, lowercased, that have depth segments and end in role.
Contributing(groups, depth, role) ==
    { Lower(groups[i]) : i \in
        { j \in DOMAIN groups :
            /\ SegmentCount(Lower(groups[j])) = depth
            /\ NthSegment(Lower(groups[j]), depth) = role } }

\* C15: parse_admin_orgs yields the first segment of exactly the entries with
\* two non-empty segments ending in admin, parse_managed_teams the first two
\* segments of exactly those with three ending in manager, parse_member_teams
\* the first two of exactly those with three ending in member; any other
\* entry (wrong depth, wrong role segment, empty) adds nothing to the set.
C15_ParsersByDepthAndRole ==
    /\ out.fn = "parse_admin_orgs" =>
          out.res = { NthSegment(g, 1) : g \in Contributing(inGroups, 2, s_admin) }
    /\ out.fn = "parse_managed_teams" =>
          out.res = { <<NthSegment(g, 1), NthSegment(g, 2)>> :
                        g \in Contributing(inGroups, 3, s_manager) }
    /\ out.fn = "parse_member_teams" =>
          out.res = { <<NthSegment(g, 1), NthSegment(g, 2)>> :
                        g \in Contributing(inGroups, 3, s_member) }

\* C15 witness: parse_managed_teams was applied to a manager path with an
\* empty segment next to a three-segment path ending in admin, and yielded
\* the one team.
C15_Witness ==
    /\ out.fn = "parse_managed_teams"
    /\ inGroups = << <<"/","a","c","m","e","/","/","p","a","y","/","m","a","n","a","g","e","r">>,
                     Path3(s_acme, s_pay, s_admin) >>
    /\ out.res = { <<s_acme, s_pay>> }

RECURSIVE JoinSlash(_)
JoinSlash(parts) ==
    IF Len(parts) = 0 THEN <<>>
    ELSE IF Len(parts) = 1 THEN parts[1]
    ELSE parts[1] \o <<"/">> \o JoinSlash(Tail(parts))

\* The variant of a path whose every segment is trimmed and lowercased.
Canonical(g) ==
    JoinSlash([ i \in DOMAIN Split(g, "/") |->
                  CHOOSE n \in NormalForms(Split(g, "/")[i]) : TRUE ])

CanonicalAll(groups) == [ i \in DOMAIN groups |-> Canonical(groups[i]) ]

IsNormal(name) == NormalForms(name) = { name }

\* C16: each of parse_admin_orgs, parse_managed_teams and parse_member_teams
\* gives, for a groups list, the result it gives for the list whose every
\* segment is trimmed and lowercased (so lists that differ only in letter
\* case or in whitespace around segments share one result), and every name in
\* the result is lowercased and trimmed.
C16_ParsersIgnoreCaseAndPadding ==
    /\ out.fn = "parse_admin_orgs" =>
          /\ out.res = parse_admin_orgs(CanonicalAll(inGroups))
          /\ \A o \in out.res : IsNormal(o)
    /\ out.fn = "parse_managed_teams" =>
          /\ out.res = parse_managed_teams(CanonicalAll(inGroups))
          /\ \A ot \in out.res : IsNormal(ot[1]) /\ IsNormal(ot[2])
    /\ out.fn = "parse_member_teams" =>
          /\ out.res = parse_member_teams(CanonicalAll(inGroups))
          /\ \A ot \in out.res : IsNormal(ot[1]) /\ IsNormal(ot[2])

\* C17: parse_user_orgs yields the first segments of exactly the entries with
\* two or more non-empty segments, without the literal super-admin; a
\* one-segment entry adds nothing.
C17_UserOrgs ==
    out.fn = "parse_user_orgs" =>
        out.res = { NthSegment(Lower(inGroups[i]), 1) : i \in
                      { j \in DOMAIN inGroups :
                          SegmentCount(Lower(inGroups[j])) >= 2 } }
                  \ { s_super_admin }

\* C17 witness: parse_user_orgs was applied to /super-admin/admin next to a
\* team member path and yielded the one organization.
C17_Witness ==
    /\ out.fn = "parse_user_orgs"
    /\ inGroups = << Path2(s_super_admin, s_admin), Path3(s_acme, s_pay, s_member) >>
    /\ out.res = { s_acme }

\* C18: whatever the groups list, super-admin is not an organization in any
\* scope set: not an element of parse_admin_orgs or parse_user_orgs, not the
\* org of a pair of parse_managed_teams or parse_member_teams.
C18_SuperAdminIsNoOrg ==
    /\ out.fn \in { "parse_admin_orgs", "parse_user_orgs" } =>
          s_super_admin \notin out.res
    /\ out.fn \in { "parse_managed_teams", "parse_member_teams" } =>
          \A ot \in out.res : ot[1] # s_super_admin

---------------------------------------------------------------------------
(* Scope parameters in authorization decisions (SpecPure) *)

\* An optional parameter with its surrounding whitespace dropped and its
\* letters lowercased; an absent parameter stays absent.
NormalParam(x) == IF x = None THEN None ELSE CHOOSE n \in NormalForms(x) : TRUE

\* C19: the OrgAdmin gate, the TeamManager gate and the scope validation of
\* list_users decide for an org/team parameter as they decide for its
\* trimmed, lowercased form, so parameters that differ only in letter case or
\* surrounding whitespace get the same allow/deny outcome.
C19_DecisionsNormalizeParams ==
    /\ out.fn = "OrgAdminChecker" =>
          out.res.status = OrgAdminChecker(NormalParam(inOrg), inGroups).status
    /\ out.fn = "TeamManagerChecker" =>
          out.res.status =
             TeamManagerChecker(NormalParam(inOrg), NormalParam(inTeam), inGroups).status
    /\ out.fn = "list_users" =>
          out.res.status =
             list_users_scope(NormalParam(out.org_name), NormalParam(out.team_name),
                              inGroups).status

\* The names a denial's detail carries after its message.
Names(detail) == { detail[i] : i \in 2..Len(detail) }

\* A denial's detail names the requested parameter, as given or normalized.
Identifies(detail, param) ==
    \E n \in { param } \cup NormalForms(param) : n \in Names(detail)

\* C20: a denial is a 403 whose detail names the authority that was asked
\* for: the org for the OrgAdmin gate, the org and the team for the
\* TeamManager gate, and the requested org (and team) for list_users.
C20_DenialsNameTheAuthority ==
    /\ (out.fn = "OrgAdminChecker" /\ out.res.status # 200) =>
          /\ out.res.status = 403
          /\ Identifies(out.res.detail, inOrg)
    /\ (out.fn = "TeamManagerChecker" /\ out.res.status # 200) =>
          /\ out.res.status = 403
          /\ Identifies(out.res.detail, inOrg)
          /\ Identifies(out.res.detail, inTeam)
    /\ (out.fn = "list_users" /\ out.res.status = 403) =>
          /\ out.org_name # None => Identifies(out.res.detail, out.org_name)
          /\ out.team_name # None => Identifies(out.res.detail, out.team_name)

---------------------------------------------------------------------------
(* Role paths built from validated names (SpecPure) *)

\* The names the validator returns for the raw names drawn.
AcceptedNames ==
    { validate_group_name_not_reserved(raw, "Team").value :
        raw \in { r \in RawNames :
                    validate_group_name_not_reserved(r, "Team").status = 200 } }

\* C30: when the validator accepts a name o, the admin path built from o
\* parses back to {o}, and for every accepted team name t the manager and
\* member paths built from o and t parse back to {(o, t)}.
C30_BuiltPathsParseBack ==
    (out.fn = "validate_group_name_not_reserved" /\ out.res.status = 200) =>
        LET o == out.res.value
        IN  /\ parse_admin_orgs(<< Path2(o, s_admin) >>) = { o }
            /\ \A t \in AcceptedNames :
                  /\ parse_managed_teams(<< Path3(o, t, s_manager) >>) = { <<o, t>> }
                  /\ parse_member_teams(<< Path3(o, t, s_member) >>) = { <<o, t>> }

---------------------------------------------------------------------------
(* One super-admin verdict for all operations (SpecPure) *)

\* C28: for every groups list, check_super_admin, the two gates, list_users,
\* create_user, get_user, list_organizations and get_my_memberships agree on
\* whether the caller is super-admin.
C28_OneSuperAdminVerdict ==
    out.fn = "is_super_admin" =>
        \A a, b \in DOMAIN out.res : out.res[a] = out.res[b]

---------------------------------------------------------------------------
(* The provider's read calls (section 6 of the spec) and
   utils/helpers.py: unique_users *)

RECURSIVE SetToSeq(_)
SetToSeq(S) ==
    IF S = {} THEN <<>>
    ELSE LET x == CHOOSE y \in S : TRUE
         IN  <<x>> \o SetToSeq(S \ {x})

\* kc.get_group_members(group_id): the ids of the group's direct members.
kc_get_group_members(M, gid) == SetToSeq({ m[1] : m \in { e \in M : e[2] = gid } })

\* kc.get_group(group_id)["subGroups"]: the ids of the group's children.
kc_sub_groups(G, gid) == SetToSeq({ g.id : g \in { h \in G : h.parent = gid } })

\* kc.get_user_groups(user_id): the paths of the groups the user is in.
kc_get_user_groups(G, M, uid) ==
    SetToSeq({ KcPath(G, m[2]) : m \in { e \in M : e[1] = uid /\ e[2] \in KcIds(G) } })

\* kc.get_users(): the ids of all users.
kc_get_users(U) == SetToSeq({ u.id : u \in U })

\* kc.delete_user(user_id): the user goes, and the user's memberships with it.
KcUsersAfterDelete(U, uid) == { u \in U : u.id # uid }
KcMembersAfterUserDelete(M, uid) == { m \in M : m[1] # uid }

\* for u in users: uid = u.get("id"); if uid and uid not in seen: ...
\* (a user is carried as its id; "" and NoUser are the ids Python finds falsy)
RECURSIVE UniqueRec(_, _, _)
UniqueRec(users, i, seen) ==
    IF i > Len(users) THEN seen
    ELSE IF users[i] \in { "", NoUser } \/ In(users[i], seen)
    THEN UniqueRec(users, i + 1, seen)
    ELSE UniqueRec(users, i + 1, Append(seen, users[i]))

unique_users(users) == UniqueRec(users, 1, <<>>)

---------------------------------------------------------------------------
(* The characters a string literal can hold, and Python's order on strings *)

\* The characters below U+10000 a literal holds, in code-point order.
CodePoints == <<"","","","","","","","","\t","\n","","\f","\r","","","","","","",
    "","","","","","","","","","","",""," ","!","\"","#","$","%","&","'","(",")",
    "*","+",",","-",".","/","0","1","2","3","4","5","6","7","8","9",":",";","<","=",">","?","@",
    "A","B","C","D","E","F","G","H","I","J","K","L","M","N","O","P","Q","R","S","T","U","V","W",
    "X","Y","Z","[","\\","]","^","_","a","b","c","d","e","f","g","h","i","j","k","l","m","n",
    "o","p","q","r","s","t","u","v","w","x","y","z","{","|","}","~","","","","","","","",
    "","","","","","","","","","","","","","","","","","","","","","","",
    "","",""," ","¡","¢","£","¤","¥","¦","§","¨","©","ª","«","¬","­","®","¯","°","±","²","³",
    "´","µ","¶","·","¸","¹","º","»","¼","½","¾","¿","À","Á","Â","Ã","Ä","Å","Æ","Ç","È","É","Ê",
    "Ë","Ì","Í","Î","Ï","Ð","Ñ","Ò","Ó","Ô","Õ","Ö","×","Ø","Ù","Ú","Û","Ü","Ý","Þ","ß","à","á",
    "â","ã","ä","å","æ","ç","è","é","ê","ë","ì","í","î","ï","ð","ñ","ò","ó","ô","õ","ö","÷","ø",
    "ù","ú","û","ü","ý","þ","ÿ","ƀ","Ɓ","Ƃ","ƃ","Ƅ","ƅ","Ɔ","Ƈ","ƈ","Ɖ","Ɗ","Ƌ","ƌ","ƍ","Ǝ","Ə",
    "Ɛ","Ƒ","ƒ","Ɠ","Ɣ","ƕ","Ɩ","Ɨ","Ƙ","ƙ","ƚ","ƛ","Ɯ","Ɲ","ƞ","Ɵ","Ơ","ơ","Ƣ","ƣ","Ƥ","ƥ","Ʀ",
    "Ƨ","ƨ","Ʃ","ƪ","ƫ","Ƭ","ƭ","Ʈ","Ư","ư","Ʊ","Ʋ","Ƴ","ƴ","Ƶ","ƶ","Ʒ","Ƹ","ƹ","ƺ","ƻ","Ƽ","ƽ",
    "ƾ","ƿ","ǀ","ǁ","ǂ","ǃ","Ǆ","ǅ","ǆ","Ǉ","ǈ","ǉ","Ǌ","ǋ","ǌ","Ǎ","ǎ","Ǐ","ǐ","Ǒ","ǒ","Ǔ","ǔ",
    "Ǖ","ǖ","Ǘ","ǘ","Ǚ","ǚ","Ǜ","ǜ","ǝ","Ǟ","ǟ","Ǡ","ǡ","Ǣ","ǣ","Ǥ","ǥ","Ǧ","ǧ","Ǩ","ǩ","Ǫ","ǫ",
    "Ǭ","ǭ","Ǯ","ǯ","ǰ","Ǳ","ǲ","ǳ","Ǵ","ǵ","Ƕ","Ƿ","Ǹ","ǹ","Ǻ","ǻ","Ǽ","ǽ","Ǿ","ǿ","ʀ","ʁ","ʂ",
    "ʃ","ʄ","ʅ","ʆ","ʇ","ʈ","ʉ","ʊ","ʋ","ʌ","ʍ","ʎ","ʏ","ʐ","ʑ","ʒ","ʓ","ʔ","ʕ","ʖ","ʗ","ʘ","ʙ",
    "ʚ","ʛ","ʜ","ʝ","ʞ","ʟ","ʠ","ʡ","ʢ","ʣ","ʤ","ʥ","ʦ","ʧ","ʨ","ʩ","ʪ","ʫ","ʬ","ʭ","ʮ","ʯ","ʰ",
    "ʱ","ʲ","ʳ","ʴ","ʵ","ʶ","ʷ","ʸ","ʹ","ʺ","ʻ","ʼ","ʽ","ʾ","ʿ","ˀ","ˁ","˂","˃","˄","˅","ˆ","ˇ",
    "ˈ","ˉ","ˊ","ˋ","ˌ","ˍ","ˎ","ˏ","ː","ˑ","˒","˓","˔","˕","˖","˗","˘","˙","˚","˛","˜","˝","˞",
    "˟","ˠ","ˡ","ˢ","ˣ","ˤ","˥","˦","˧","˨","˩","˪","˫","ˬ","˭","ˮ","˯","˰","˱","˲","˳","˴","˵",
    "˶","˷","˸","˹","˺","˻","˼","˽","˾","˿","΀","΁","΂","΃","΄","΅","Ά","·","Έ","Ή","Ί","΋","Ό",
    "΍","Ύ","Ώ","ΐ","Α","Β","Γ","Δ","Ε","Ζ","Η","Θ","Ι","Κ","Λ","Μ","Ν","Ξ","Ο","Π","Ρ","΢","Σ",
    "Τ","Υ","Φ","Χ","Ψ","Ω","Ϊ","Ϋ","ά","έ","ή","ί","ΰ","α","β","γ","δ","ε","ζ","η","θ","ι","κ",
    "λ","μ","ν","ξ","ο","π","ρ","ς","σ","τ","υ","φ","χ","ψ","ω","ϊ","ϋ","ό","ύ","ώ","Ϗ","ϐ","ϑ",
    "ϒ","ϓ","ϔ","ϕ","ϖ","ϗ","Ϙ","ϙ","Ϛ","ϛ","Ϝ","ϝ","Ϟ","ϟ","Ϡ","ϡ","Ϣ","ϣ","Ϥ","ϥ","Ϧ","ϧ","Ϩ",
    "ϩ","Ϫ","ϫ","Ϭ","ϭ","Ϯ","ϯ","ϰ","ϱ","ϲ","ϳ","ϴ","ϵ","϶","Ϸ","ϸ","Ϲ","Ϻ","ϻ","ϼ","Ͻ","Ͼ","Ͽ",
    "Ҁ","ҁ","҂","҃","҄","҅","҆","҇","҈","҉","Ҋ","ҋ","Ҍ","ҍ","Ҏ","ҏ","Ґ","ґ","Ғ","ғ","Ҕ","ҕ","Җ",
    "җ","Ҙ","ҙ","Қ","қ","Ҝ","ҝ","Ҟ","ҟ","Ҡ","ҡ","Ң","ң","Ҥ","ҥ","Ҧ","ҧ","Ҩ","ҩ","Ҫ","ҫ","Ҭ","ҭ",
    "Ү","ү","Ұ","ұ","Ҳ","ҳ","Ҵ","ҵ","Ҷ","ҷ","Ҹ","ҹ","Һ","һ","Ҽ","ҽ","Ҿ","ҿ","Ӏ","Ӂ","ӂ","Ӄ","ӄ",
    "Ӆ","ӆ","Ӈ","ӈ","Ӊ","ӊ","Ӌ","ӌ","Ӎ","ӎ","ӏ","Ӑ","ӑ","Ӓ","ӓ","Ӕ","ӕ","Ӗ","ӗ","Ә","ә","Ӛ","ӛ",
    "Ӝ","ӝ","Ӟ","ӟ","Ӡ","ӡ","Ӣ","ӣ","Ӥ","ӥ","Ӧ","ӧ","Ө","ө","Ӫ","ӫ","Ӭ","ӭ","Ӯ","ӯ","Ӱ","ӱ","Ӳ",
    "ӳ","Ӵ","ӵ","Ӷ","ӷ","Ӹ","ӹ","Ӻ","ӻ","Ӽ","ӽ","Ӿ","ӿ","ր","ց","ւ","փ","ք","օ","ֆ","և","ֈ","։",
    "֊","֋","֌","֍","֎","֏","֐","֑","֒","֓","֔","֕","֖","֗","֘","֙","֚","֛","֜","֝","֞","֟","֠",
    "֡","֢","֣","֤","֥","֦","֧","֨","֩","֪","֫","֬","֭","֮","֯","ְ","ֱ","ֲ","ֳ","ִ","ֵ","ֶ","ַ",
    "ָ","ֹ","ֺ","ֻ","ּ","ֽ","־","ֿ","׀","ׁ","ׂ","׃","ׄ","ׅ","׆","ׇ","׈","׉","׊","׋","׌","׍","׎",
    "׏","א","ב","ג","ד","ה","ו","ז","ח","ט","י","ך","כ","ל","ם","מ","ן","נ","ס","ע","ף","פ","ץ",
    "צ","ק","ר","ש","ת","׫","׬","׭","׮","ׯ","װ","ױ","ײ","׳","״","׵","׶","׷","׸","׹","׺","׻","׼",
    "׽","׾","׿","ڀ","ځ","ڂ","ڃ","ڄ","څ","چ","ڇ","ڈ","ډ","ڊ","ڋ","ڌ","ڍ","ڎ","ڏ","ڐ","ڑ","ڒ","ړ",
    "ڔ","ڕ","ږ","ڗ","ژ","ڙ","ښ","ڛ","ڜ","ڝ","ڞ","ڟ","ڠ","ڡ","ڢ","ڣ","ڤ","ڥ","ڦ","ڧ","ڨ","ک","ڪ",
    "ګ","ڬ","ڭ","ڮ","گ","ڰ","ڱ","ڲ","ڳ","ڴ","ڵ","ڶ","ڷ","ڸ","ڹ","ں","ڻ","ڼ","ڽ","ھ","ڿ","ۀ","ہ",
    "ۂ","ۃ","ۄ","ۅ","ۆ","ۇ","ۈ","ۉ","ۊ","ۋ","ی","ۍ","ێ","ۏ","ې","ۑ","ے","ۓ","۔","ە","ۖ","ۗ","ۘ",
    "ۙ","ۚ","ۛ","ۜ","۝","۞","۟","۠","ۡ","ۢ","ۣ","ۤ","ۥ","ۦ","ۧ","ۨ","۩","۪","۫","۬","ۭ","ۮ","ۯ",
    "۰","۱","۲","۳","۴","۵","۶","۷","۸","۹","ۺ","ۻ","ۼ","۽","۾","ۿ","ހ","ށ","ނ","ރ","ބ","ޅ","ކ",
    "އ","ވ","މ","ފ","ދ","ތ","ލ","ގ","ޏ","ސ","ޑ","ޒ","ޓ","ޔ","ޕ","ޖ","ޗ","ޘ","ޙ","ޚ","ޛ","ޜ","ޝ",
    "ޞ","ޟ","ޠ","ޡ","ޢ","ޣ","ޤ","ޥ","ަ","ާ","ި","ީ","ު","ޫ","ެ","ޭ","ޮ","ޯ","ް","ޱ","޲","޳","޴",
    "޵","޶","޷","޸","޹","޺","޻","޼","޽","޾","޿","߀","߁","߂","߃","߄","߅","߆","߇","߈","߉","ߊ","ߋ",
    "ߌ","ߍ","ߎ","ߏ","ߐ","ߑ","ߒ","ߓ","ߔ","ߕ","ߖ","ߗ","ߘ","ߙ","ߚ","ߛ","ߜ","ߝ","ߞ","ߟ","ߠ","ߡ","ߢ",
    "ߣ","ߤ","ߥ","ߦ","ߧ","ߨ","ߩ","ߪ","߫","߬","߭","߮","߯","߰","߱","߲","߳","ߴ","ߵ","߶","߷","߸","߹",
    "ߺ","߻","߼","߽","߾","߿","ࢀ","ࢁ","ࢂ","ࢃ","ࢄ","ࢅ","ࢆ","ࢇ","࢈","ࢉ","ࢊ","ࢋ","ࢌ","ࢍ","ࢎ","࢏","࢐",
    "࢑","࢒","࢓","࢔","࢕","࢖","ࢗ","࢘","࢙","࢚","࢛","࢜","࢝","࢞","࢟","ࢠ","ࢡ","ࢢ","ࢣ","ࢤ","ࢥ","ࢦ","ࢧ",
    "ࢨ","ࢩ","ࢪ","ࢫ","ࢬ","ࢭ","ࢮ","ࢯ","ࢰ","ࢱ","ࢲ","ࢳ","ࢴ","ࢵ","ࢶ","ࢷ","ࢸ","ࢹ","ࢺ","ࢻ","ࢼ","ࢽ","ࢾ",
    "ࢿ","ࣀ","ࣁ","ࣂ","ࣃ","ࣄ","ࣅ","ࣆ","ࣇ","ࣈ","ࣉ","࣊","࣋","࣌","࣍","࣎","࣏","࣐","࣑","࣒","࣓","ࣔ","ࣕ",
    "ࣖ","ࣗ","ࣘ","ࣙ","ࣚ","ࣛ","ࣜ","ࣝ","ࣞ","ࣟ","࣠","࣡","࣢","ࣣ","ࣤ","ࣥ","ࣦ","ࣧ","ࣨ","ࣩ","࣪","࣫","࣬",
    "࣭","࣮","࣯","ࣰ","ࣱ","ࣲ","ࣳ","ࣴ","ࣵ","ࣶ","ࣷ","ࣸ","ࣹ","ࣺ","ࣻ","ࣼ","ࣽ","ࣾ","ࣿ","ঀ","ঁ","ং","ঃ",
    "঄","অ","আ","ই","ঈ","উ","ঊ","ঋ","ঌ","঍","঎","এ","ঐ","঑","঒","ও","ঔ","ক","খ","গ","ঘ","ঙ","চ",
    "ছ","জ","ঝ","ঞ","ট","ঠ","ড","ঢ","ণ","ত","থ","দ","ধ","ন","঩","প","ফ","ব","ভ","ম","য","র","঱",
    "ল","঳","঴","঵","শ","ষ","স","হ","঺","঻","়","ঽ","া","ি","ী","ু","ূ","ৃ","ৄ","৅","৆","ে","ৈ",
    "৉","৊","ো","ৌ","্","ৎ","৏","৐","৑","৒","৓","৔","৕","৖","ৗ","৘","৙","৚","৛","ড়","ঢ়","৞","য়",
    "ৠ","ৡ","ৢ","ৣ","৤","৥","০","১","২","৩","৪","৫","৬","৭","৮","৯","ৰ","ৱ","৲","৳","৴","৵","৶",
    "৷","৸","৹","৺","৻","ৼ","৽","৾","৿","઀","ઁ","ં","ઃ","઄","અ","આ","ઇ","ઈ","ઉ","ઊ","ઋ","ઌ","ઍ",
    "઎","એ","ઐ","ઑ","઒","ઓ","ઔ","ક","ખ","ગ","ઘ","ઙ","ચ","છ","જ","ઝ","ઞ","ટ","ઠ","ડ","ઢ","ણ","ત",
    "થ","દ","ધ","ન","઩","પ","ફ","બ","ભ","મ","ય","ર","઱","લ","ળ","઴","વ","શ","ષ","સ","હ","઺","઻",
    "઼","ઽ","ા","િ","ી","ુ","ૂ","ૃ","ૄ","ૅ","૆","ે","ૈ","ૉ","૊","ો","ૌ","્","૎","૏","ૐ","૑","૒",
    "૓","૔","૕","૖","૗","૘","૙","૚","૛","૜","૝","૞","૟","ૠ","ૡ","ૢ","ૣ","૤","૥","૦","૧","૨","૩",
    "૪","૫","૬","૭","૮","૯","૰","૱","૲","૳","૴","૵","૶","૷","૸","ૹ","ૺ","ૻ","ૼ","૽","૾","૿","஀",
    "஁","ஂ","ஃ","஄","அ","ஆ","இ","ஈ","உ","ஊ","஋","஌","஍","எ","ஏ","ஐ","஑","ஒ","ஓ","ஔ","க","஖","஗",
    "஘","ங","ச","஛","ஜ","஝","ஞ","ட","஠","஡","஢","ண","த","஥","஦","஧","ந","ன","ப","஫","஬","஭","ம",
    "ய","ர","ற","ல","ள","ழ","வ","ஶ","ஷ","ஸ","ஹ","஺","஻","஼","஽","ா","ி","ீ","ு","ூ","௃","௄","௅",
    "ெ","ே","ை","௉","ொ","ோ","ௌ","்","௎","௏","ௐ","௑","௒","௓","௔","௕","௖","ௗ","௘","௙","௚","௛","௜",
    "௝","௞","௟","௠","௡","௢","௣","௤","௥","௦","௧","௨","௩","௪","௫","௬","௭","௮","௯","௰","௱","௲","௳",
    "௴","௵","௶","௷","௸","௹","௺","௻","௼","௽","௾","௿","ಀ","ಁ","ಂ","ಃ","಄","ಅ","ಆ","ಇ","ಈ","ಉ","ಊ",
    "ಋ","ಌ","಍","ಎ","ಏ","ಐ","಑","ಒ","ಓ","ಔ","ಕ","ಖ","ಗ","ಘ","ಙ","ಚ","ಛ","ಜ","ಝ","ಞ","ಟ","ಠ","ಡ",
    "ಢ","ಣ","ತ","ಥ","ದ","ಧ","ನ","಩","ಪ","ಫ","ಬ","ಭ","ಮ","ಯ","ರ","ಱ","ಲ","ಳ","಴","ವ","ಶ","ಷ","ಸ",
    "ಹ","಺","಻","಼","ಽ","ಾ","ಿ","ೀ","ು","ೂ","ೃ","ೄ","೅","ೆ","ೇ","ೈ","೉","ೊ","ೋ","ೌ","್","೎","೏",
    "೐","೑","೒","೓","೔","ೕ","ೖ","೗","೘","೙","೚","೛","೜","ೝ","ೞ","೟","ೠ","ೡ","ೢ","ೣ","೤","೥","೦",
    "೧","೨","೩","೪","೫","೬","೭","೮","೯","೰","ೱ","ೲ","ೳ","೴","೵","೶","೷","೸","೹","೺","೻","೼","೽",
    "೾","೿","඀","ඁ","ං","ඃ","඄","අ","ආ","ඇ","ඈ","ඉ","ඊ","උ","ඌ","ඍ","ඎ","ඏ","ඐ","එ","ඒ","ඓ","ඔ",
    "ඕ","ඖ","඗","඘","඙","ක","ඛ","ග","ඝ","ඞ","ඟ","ච","ඡ","ජ","ඣ","ඤ","ඥ","ඦ","ට","ඨ","ඩ","ඪ","ණ",
    "ඬ","ත","ථ","ද","ධ","න","඲","ඳ","ප","ඵ","බ","භ","ම","ඹ","ය","ර","඼","ල","඾","඿","ව","ශ","ෂ",
    "ස","හ","ළ","ෆ","෇","෈","෉","්","෋","෌","෍","෎","ා","ැ","ෑ","ි","ී","ු","෕","ූ","෗","ෘ","ෙ",
    "ේ","ෛ","ො","ෝ","ෞ","ෟ","෠","෡","෢","෣","෤","෥","෦","෧","෨","෩","෪","෫","෬","෭","෮","෯","෰",
    "෱","ෲ","ෳ","෴","෵","෶","෷","෸","෹","෺","෻","෼","෽","෾","෿","຀","ກ","ຂ","຃","ຄ","຅","ຆ","ງ",
    "ຈ","ຉ","ຊ","຋","ຌ","ຍ","ຎ","ຏ","ຐ","ຑ","ຒ","ຓ","ດ","ຕ","ຖ","ທ","ຘ","ນ","ບ","ປ","ຜ","ຝ","ພ",
    "ຟ","ຠ","ມ","ຢ","ຣ","຤","ລ","຦","ວ","ຨ","ຩ","ສ","ຫ","ຬ","ອ","ຮ","ຯ","ະ","ັ","າ","ຳ","ິ","ີ",
    "ຶ","ື","ຸ","ູ","຺","ົ","ຼ","ຽ","຾","຿","ເ","ແ","ໂ","ໃ","ໄ","໅","ໆ","໇","່","້","໊","໋","໌",
    "ໍ","໎","໏","໐","໑","໒","໓","໔","໕","໖","໗","໘","໙","໚","໛","ໜ","ໝ","ໞ","ໟ","໠","໡","໢","໣",
    "໤","໥","໦","໧","໨","໩","໪","໫","໬","໭","໮","໯","໰","໱","໲","໳","໴","໵","໶","໷","໸","໹","໺",
    "໻","໼","໽","໾","໿","ྀ","ཱྀ","ྂ","ྃ","྄","྅","྆","྇","ྈ","ྉ","ྊ","ྋ","ྌ","ྍ","ྎ","ྏ","ྐ","ྑ",
    "ྒ","ྒྷ","ྔ","ྕ","ྖ","ྗ","྘","ྙ","ྚ","ྛ","ྜ","ྜྷ","ྞ","ྟ","ྠ","ྡ","ྡྷ","ྣ","ྤ","ྥ","ྦ","ྦྷ","ྨ",
    "ྩ","ྪ","ྫ","ྫྷ","ྭ","ྮ","ྯ","ྰ","ྱ","ྲ","ླ","ྴ","ྵ","ྶ","ྷ","ྸ","ྐྵ","ྺ","ྻ","ྼ","྽","྾","྿",
    "࿀","࿁","࿂","࿃","࿄","࿅","࿆","࿇","࿈","࿉","࿊","࿋","࿌","࿍","࿎","࿏","࿐","࿑","࿒","࿓","࿔","࿕","࿖",
    "࿗","࿘","࿙","࿚","࿛","࿜","࿝","࿞","࿟","࿠","࿡","࿢","࿣","࿤","࿥","࿦","࿧","࿨","࿩","࿪","࿫","࿬","࿭",
    "࿮","࿯","࿰","࿱","࿲","࿳","࿴","࿵","࿶","࿷","࿸","࿹","࿺","࿻","࿼","࿽","࿾","࿿","ႀ","ႁ","ႂ","ႃ","ႄ",
    "ႅ","ႆ","ႇ","ႈ","ႉ","ႊ","ႋ","ႌ","ႍ","ႎ","ႏ","႐","႑","႒","႓","႔","႕","႖","႗","႘","႙","ႚ","ႛ",
    "ႜ","ႝ","႞","႟","Ⴀ","Ⴁ","Ⴂ","Ⴃ","Ⴄ","Ⴅ","Ⴆ","Ⴇ","Ⴈ","Ⴉ","Ⴊ","Ⴋ","Ⴌ","Ⴍ","Ⴎ","Ⴏ","Ⴐ","Ⴑ","Ⴒ",
    "Ⴓ","Ⴔ","Ⴕ","Ⴖ","Ⴗ","Ⴘ","Ⴙ","Ⴚ","Ⴛ","Ⴜ","Ⴝ","Ⴞ","Ⴟ","Ⴠ","Ⴡ","Ⴢ","Ⴣ","Ⴤ","Ⴥ","჆","Ⴧ","჈","჉",
    "჊","჋","჌","Ⴭ","჎","჏","ა","ბ","გ","დ","ე","ვ","ზ","თ","ი","კ","ლ","მ","ნ","ო","პ","ჟ","რ",
    "ს","ტ","უ","ფ","ქ","ღ","ყ","შ","ჩ","ც","ძ","წ","ჭ","ხ","ჯ","ჰ","ჱ","ჲ","ჳ","ჴ","ჵ","ჶ","ჷ",
    "ჸ","ჹ","ჺ","჻","ჼ","ჽ","ჾ","ჿ","ᆀ","ᆁ","ᆂ","ᆃ","ᆄ","ᆅ","ᆆ","ᆇ","ᆈ","ᆉ","ᆊ","ᆋ","ᆌ","ᆍ","ᆎ",
    "ᆏ","ᆐ","ᆑ","ᆒ","ᆓ","ᆔ","ᆕ","ᆖ","ᆗ","ᆘ","ᆙ","ᆚ","ᆛ","ᆜ","ᆝ","ᆞ","ᆟ","ᆠ","ᆡ","ᆢ","ᆣ","ᆤ","ᆥ",
    "ᆦ","ᆧ","ᆨ","ᆩ","ᆪ","ᆫ","ᆬ","ᆭ","ᆮ","ᆯ","ᆰ","ᆱ","ᆲ","ᆳ","ᆴ","ᆵ","ᆶ","ᆷ","ᆸ","ᆹ","ᆺ","ᆻ","ᆼ",
    "ᆽ","ᆾ","ᆿ","ᇀ","ᇁ","ᇂ","ᇃ","ᇄ","ᇅ","ᇆ","ᇇ","ᇈ","ᇉ","ᇊ","ᇋ","ᇌ","ᇍ","ᇎ","ᇏ","ᇐ","ᇑ","ᇒ","ᇓ",
    "ᇔ","ᇕ","ᇖ","ᇗ","ᇘ","ᇙ","ᇚ","ᇛ","ᇜ","ᇝ","ᇞ","ᇟ","ᇠ","ᇡ","ᇢ","ᇣ","ᇤ","ᇥ","ᇦ","ᇧ","ᇨ","ᇩ","ᇪ",
    "ᇫ","ᇬ","ᇭ","ᇮ","ᇯ","ᇰ","ᇱ","ᇲ","ᇳ","ᇴ","ᇵ","ᇶ","ᇷ","ᇸ","ᇹ","ᇺ","ᇻ","ᇼ","ᇽ","ᇾ","ᇿ","ኀ","ኁ",
    "ኂ","ኃ","ኄ","ኅ","ኆ","ኇ","ኈ","኉","ኊ","ኋ","ኌ","ኍ","኎","኏","ነ","ኑ","ኒ","ና","ኔ","ን","ኖ","ኗ","ኘ",
    "ኙ","ኚ","ኛ","ኜ","ኝ","ኞ","ኟ","አ","ኡ","ኢ","ኣ","ኤ","እ","ኦ","ኧ","ከ","ኩ","ኪ","ካ","ኬ","ክ","ኮ","ኯ",
    "ኰ","኱","ኲ","ኳ","ኴ","ኵ","኶","኷","ኸ","ኹ","ኺ","ኻ","ኼ","ኽ","ኾ","኿","ዀ","዁","ዂ","ዃ","ዄ","ዅ","዆",
    "዇","ወ","ዉ","ዊ","ዋ","ዌ","ው","ዎ","ዏ","ዐ","ዑ","ዒ","ዓ","ዔ","ዕ","ዖ","዗","ዘ","ዙ","ዚ","ዛ","ዜ","ዝ",
    "ዞ","ዟ","ዠ","ዡ","ዢ","ዣ","ዤ","ዥ","ዦ","ዧ","የ","ዩ","ዪ","ያ","ዬ","ይ","ዮ","ዯ","ደ","ዱ","ዲ","ዳ","ዴ",
    "ድ","ዶ","ዷ","ዸ","ዹ","ዺ","ዻ","ዼ","ዽ","ዾ","ዿ","ᎀ","ᎁ","ᎂ","ᎃ","ᎄ","ᎅ","ᎆ","ᎇ","ᎈ","ᎉ","ᎊ","ᎋ",
    "ᎌ","ᎍ","ᎎ","ᎏ","᎐","᎑","᎒","᎓","᎔","᎕","᎖","᎗","᎘","᎙","᎚","᎛","᎜","᎝","᎞","᎟","Ꭰ","Ꭱ","Ꭲ",
    "Ꭳ","Ꭴ","Ꭵ","Ꭶ","Ꭷ","Ꭸ","Ꭹ","Ꭺ","Ꭻ","Ꭼ","Ꭽ","Ꭾ","Ꭿ","Ꮀ","Ꮁ","Ꮂ","Ꮃ","Ꮄ","Ꮅ","Ꮆ","Ꮇ","Ꮈ","Ꮉ",
    "Ꮊ","Ꮋ","Ꮌ","Ꮍ","Ꮎ","Ꮏ","Ꮐ","Ꮑ","Ꮒ","Ꮓ","Ꮔ","Ꮕ","Ꮖ","Ꮗ","Ꮘ","Ꮙ","Ꮚ","Ꮛ","Ꮜ","Ꮝ","Ꮞ","Ꮟ","Ꮠ",
    "Ꮡ","Ꮢ","Ꮣ","Ꮤ","Ꮥ","Ꮦ","Ꮧ","Ꮨ","Ꮩ","Ꮪ","Ꮫ","Ꮬ","Ꮭ","Ꮮ","Ꮯ","Ꮰ","Ꮱ","Ꮲ","Ꮳ","Ꮴ","Ꮵ","Ꮶ","Ꮷ",
    "Ꮸ","Ꮹ","Ꮺ","Ꮻ","Ꮼ","Ꮽ","Ꮾ","Ꮿ","Ᏸ","Ᏹ","Ᏺ","Ᏻ","Ᏼ","Ᏽ","᏶","᏷","ᏸ","ᏹ","ᏺ","ᏻ","ᏼ","ᏽ","᏾",
    "᏿","ᒀ","ᒁ","ᒂ","ᒃ","ᒄ","ᒅ","ᒆ","ᒇ","ᒈ","ᒉ","ᒊ","ᒋ","ᒌ","ᒍ","ᒎ","ᒏ","ᒐ","ᒑ","ᒒ","ᒓ","ᒔ","ᒕ",
    "ᒖ","ᒗ","ᒘ","ᒙ","ᒚ","ᒛ","ᒜ","ᒝ","ᒞ","ᒟ","ᒠ","ᒡ","ᒢ","ᒣ","ᒤ","ᒥ","ᒦ","ᒧ","ᒨ","ᒩ","ᒪ","ᒫ","ᒬ",
    "ᒭ","ᒮ","ᒯ","ᒰ","ᒱ","ᒲ","ᒳ","ᒴ","ᒵ","ᒶ","ᒷ","ᒸ","ᒹ","ᒺ","ᒻ","ᒼ","ᒽ","ᒾ","ᒿ","ᓀ","ᓁ","ᓂ","ᓃ",
    "ᓄ","ᓅ","ᓆ","ᓇ","ᓈ","ᓉ","ᓊ","ᓋ","ᓌ","ᓍ","ᓎ","ᓏ","ᓐ","ᓑ","ᓒ","ᓓ","ᓔ","ᓕ","ᓖ","ᓗ","ᓘ","ᓙ","ᓚ",
    "ᓛ","ᓜ","ᓝ","ᓞ","ᓟ","ᓠ","ᓡ","ᓢ","ᓣ","ᓤ","ᓥ","ᓦ","ᓧ","ᓨ","ᓩ","ᓪ","ᓫ","ᓬ","ᓭ","ᓮ","ᓯ","ᓰ","ᓱ",
    "ᓲ","ᓳ","ᓴ","ᓵ","ᓶ","ᓷ","ᓸ","ᓹ","ᓺ","ᓻ","ᓼ","ᓽ","ᓾ","ᓿ","ᖀ","ᖁ","ᖂ","ᖃ","ᖄ","ᖅ","ᖆ","ᖇ","ᖈ",
    "ᖉ","ᖊ","ᖋ","ᖌ","ᖍ","ᖎ","ᖏ","ᖐ","ᖑ","ᖒ","ᖓ","ᖔ","ᖕ","ᖖ","ᖗ","ᖘ","ᖙ","ᖚ","ᖛ","ᖜ","ᖝ","ᖞ","ᖟ",
    "ᖠ","ᖡ","ᖢ","ᖣ","ᖤ","ᖥ","ᖦ","ᖧ","ᖨ","ᖩ","ᖪ","ᖫ","ᖬ","ᖭ","ᖮ","ᖯ","ᖰ","ᖱ","ᖲ","ᖳ","ᖴ","ᖵ","ᖶ",
    "ᖷ","ᖸ","ᖹ","ᖺ","ᖻ","ᖼ","ᖽ","ᖾ","ᖿ","ᗀ","ᗁ","ᗂ","ᗃ","ᗄ","ᗅ","ᗆ","ᗇ","ᗈ","ᗉ","ᗊ","ᗋ","ᗌ","ᗍ",
    "ᗎ","ᗏ","ᗐ","ᗑ","ᗒ","ᗓ","ᗔ","ᗕ","ᗖ","ᗗ","ᗘ","ᗙ","ᗚ","ᗛ","ᗜ","ᗝ","ᗞ","ᗟ","ᗠ","ᗡ","ᗢ","ᗣ","ᗤ",
    "ᗥ","ᗦ","ᗧ","ᗨ","ᗩ","ᗪ","ᗫ","ᗬ","ᗭ","ᗮ","ᗯ","ᗰ","ᗱ","ᗲ","ᗳ","ᗴ","ᗵ","ᗶ","ᗷ","ᗸ","ᗹ","ᗺ","ᗻ",
    "ᗼ","ᗽ","ᗾ","ᗿ"," ","ᚁ","ᚂ","ᚃ","ᚄ","ᚅ","ᚆ","ᚇ","ᚈ","ᚉ","ᚊ","ᚋ","ᚌ","ᚍ","ᚎ","ᚏ","ᚐ","ᚑ","ᚒ",
    "ᚓ","ᚔ","ᚕ","ᚖ","ᚗ","ᚘ","ᚙ","ᚚ","᚛","᚜","᚝","᚞","᚟","ᚠ","ᚡ","ᚢ","ᚣ","ᚤ","ᚥ","ᚦ","ᚧ","ᚨ","ᚩ",
    "ᚪ","ᚫ","ᚬ","ᚭ","ᚮ","ᚯ","ᚰ","ᚱ","ᚲ","ᚳ","ᚴ","ᚵ","ᚶ","ᚷ","ᚸ","ᚹ","ᚺ","ᚻ","ᚼ","ᚽ","ᚾ","ᚿ","ᛀ",
    "ᛁ","ᛂ","ᛃ","ᛄ","ᛅ","ᛆ","ᛇ","ᛈ","ᛉ","ᛊ","ᛋ","ᛌ","ᛍ","ᛎ","ᛏ","ᛐ","ᛑ","ᛒ","ᛓ","ᛔ","ᛕ","ᛖ","ᛗ",
    "ᛘ","ᛙ","ᛚ","ᛛ","ᛜ","ᛝ","ᛞ","ᛟ","ᛠ","ᛡ","ᛢ","ᛣ","ᛤ","ᛥ","ᛦ","ᛧ","ᛨ","ᛩ","ᛪ","᛫","᛬","᛭","ᛮ",
    "ᛯ","ᛰ","ᛱ","ᛲ","ᛳ","ᛴ","ᛵ","ᛶ","ᛷ","ᛸ","᛹","᛺","᛻","᛼","᛽","᛾","᛿","ក","ខ","គ","ឃ","ង","ច",
    "ឆ","ជ","ឈ","ញ","ដ","ឋ","ឌ","ឍ","ណ","ត","ថ","ទ","ធ","ន","ប","ផ","ព","ភ","ម","យ","រ","ល","វ",
    "ឝ","ឞ","ស","ហ","ឡ","អ","ឣ","ឤ","ឥ","ឦ","ឧ","ឨ","ឩ","ឪ","ឫ","ឬ","ឭ","ឮ","ឯ","ឰ","ឱ","ឲ","ឳ",
    "឴","឵","ា","ិ","ី","ឹ","ឺ","ុ","ូ","ួ","ើ","ឿ","ៀ","េ","ែ","ៃ","ោ","ៅ","ំ","ះ","ៈ","៉","៊",
    "់","៌","៍","៎","៏","័","៑","្","៓","។","៕","៖","ៗ","៘","៙","៚","៛","ៜ","៝","៞","៟","០","១",
    "២","៣","៤","៥","៦","៧","៨","៩","៪","៫","៬","៭","៮","៯","៰","៱","៲","៳","៴","៵","៶","៷","៸",
    "៹","៺","៻","៼","៽","៾","៿","ᢀ","ᢁ","ᢂ","ᢃ","ᢄ","ᢅ","ᢆ","ᢇ","ᢈ","ᢉ","ᢊ","ᢋ","ᢌ","ᢍ","ᢎ","ᢏ",
    "ᢐ","ᢑ","ᢒ","ᢓ","ᢔ","ᢕ","ᢖ","ᢗ","ᢘ","ᢙ","ᢚ","ᢛ","ᢜ","ᢝ","ᢞ","ᢟ","ᢠ","ᢡ","ᢢ","ᢣ","ᢤ","ᢥ","ᢦ",
    "ᢧ","ᢨ","ᢩ","ᢪ","᢫","᢬","᢭","᢮","᢯","ᢰ","ᢱ","ᢲ","ᢳ","ᢴ","ᢵ","ᢶ","ᢷ","ᢸ","ᢹ","ᢺ","ᢻ","ᢼ","ᢽ",
    "ᢾ","ᢿ","ᣀ","ᣁ","ᣂ","ᣃ","ᣄ","ᣅ","ᣆ","ᣇ","ᣈ","ᣉ","ᣊ","ᣋ","ᣌ","ᣍ","ᣎ","ᣏ","ᣐ","ᣑ","ᣒ","ᣓ","ᣔ",
    "ᣕ","ᣖ","ᣗ","ᣘ","ᣙ","ᣚ","ᣛ","ᣜ","ᣝ","ᣞ","ᣟ","ᣠ","ᣡ","ᣢ","ᣣ","ᣤ","ᣥ","ᣦ","ᣧ","ᣨ","ᣩ","ᣪ","ᣫ",
    "ᣬ","ᣭ","ᣮ","ᣯ","ᣰ","ᣱ","ᣲ","ᣳ","ᣴ","ᣵ","᣶","᣷","᣸","᣹","᣺","᣻","᣼","᣽","᣾","᣿","ᦀ","ᦁ","ᦂ",
    "ᦃ","ᦄ","ᦅ","ᦆ","ᦇ","ᦈ","ᦉ","ᦊ","ᦋ","ᦌ","ᦍ","ᦎ","ᦏ","ᦐ","ᦑ","ᦒ","ᦓ","ᦔ","ᦕ","ᦖ","ᦗ","ᦘ","ᦙ",
    "ᦚ","ᦛ","ᦜ","ᦝ","ᦞ","ᦟ","ᦠ","ᦡ","ᦢ","ᦣ","ᦤ","ᦥ","ᦦ","ᦧ","ᦨ","ᦩ","ᦪ","ᦫ","᦬","᦭","᦮","᦯","ᦰ",
    "ᦱ","ᦲ","ᦳ","ᦴ","ᦵ","ᦶ","ᦷ","ᦸ","ᦹ","ᦺ","ᦻ","ᦼ","ᦽ","ᦾ","ᦿ","ᧀ","ᧁ","ᧂ","ᧃ","ᧄ","ᧅ","ᧆ","ᧇ",
    "ᧈ","ᧉ","᧊","᧋","᧌","᧍","᧎","᧏","᧐","᧑","᧒","᧓","᧔","᧕","᧖","᧗","᧘","᧙","᧚","᧛","᧜","᧝","᧞",
    "᧟","᧠","᧡","᧢","᧣","᧤","᧥","᧦","᧧","᧨","᧩","᧪","᧫","᧬","᧭","᧮","᧯","᧰","᧱","᧲","᧳","᧴","᧵",
    "᧶","᧷","᧸","᧹","᧺","᧻","᧼","᧽","᧾","᧿","᪀","᪁","᪂","᪃","᪄","᪅","᪆","᪇","᪈","᪉","᪊","᪋","᪌",
    "᪍","᪎","᪏","᪐","᪑","᪒","᪓","᪔","᪕","᪖","᪗","᪘","᪙","᪚","᪛","᪜","᪝","᪞","᪟","᪠","᪡","᪢","᪣",
    "᪤","᪥","᪦","ᪧ","᪨","᪩","᪪","᪫","᪬","᪭","᪮","᪯","᪰","᪱","᪲","᪳","᪴","᪵","᪶","᪷","᪸","᪹","᪺",
    "᪻","᪼","᪽","᪾","ᪿ","ᫀ","᫁","᫂","᫃","᫄","᫅","᫆","᫇","᫈","᫉","᫊","᫋","ᫌ","ᫍ","ᫎ","᫏","᫐","᫑",
    "᫒","᫓","᫔","᫕","᫖","᫗","᫘","᫙","᫚","᫛","᫜","᫝","᫞","᫟","᫠","᫡","᫢","᫣","᫤","᫥","᫦","᫧","᫨",
    "᫩","᫪","᫫","᫬","᫭","᫮","᫯","᫰","᫱","᫲","᫳","᫴","᫵","᫶","᫷","᫸","᫹","᫺","᫻","᫼","᫽","᫾","᫿",
    "ᮀ","ᮁ","ᮂ","ᮃ","ᮄ","ᮅ","ᮆ","ᮇ","ᮈ","ᮉ","ᮊ","ᮋ","ᮌ","ᮍ","ᮎ","ᮏ","ᮐ","ᮑ","ᮒ","ᮓ","ᮔ","ᮕ","ᮖ",
    "ᮗ","ᮘ","ᮙ","ᮚ","ᮛ","ᮜ","ᮝ","ᮞ","ᮟ","ᮠ","ᮡ","ᮢ","ᮣ","ᮤ","ᮥ","ᮦ","ᮧ","ᮨ","ᮩ","᮪","᮫","ᮬ","ᮭ",
    "ᮮ","ᮯ","᮰","᮱","᮲","᮳","᮴","᮵","᮶","᮷","᮸","᮹","ᮺ","ᮻ","ᮼ","ᮽ","ᮾ","ᮿ","ᯀ","ᯁ","ᯂ","ᯃ","ᯄ",
    "ᯅ","ᯆ","ᯇ","ᯈ","ᯉ","ᯊ","ᯋ","ᯌ","ᯍ","ᯎ","ᯏ","ᯐ","ᯑ","ᯒ","ᯓ","ᯔ","ᯕ","ᯖ","ᯗ","ᯘ","ᯙ","ᯚ","ᯛ",
    "ᯜ","ᯝ","ᯞ","ᯟ","ᯠ","ᯡ","ᯢ","ᯣ","ᯤ","ᯥ","᯦","ᯧ","ᯨ","ᯩ","ᯪ","ᯫ","ᯬ","ᯭ","ᯮ","ᯯ","ᯰ","ᯱ","᯲",
    "᯳","᯴","᯵","᯶","᯷","᯸","᯹","᯺","᯻","᯼","᯽","᯾","᯿","ᲀ","ᲁ","ᲂ","ᲃ","ᲄ","ᲅ","ᲆ","ᲇ","ᲈ","Ᲊ",
    "ᲊ","᲋","᲌","᲍","᲎","᲏","Ა","Ბ","Გ","Დ","Ე","Ვ","Ზ","Თ","Ი","Კ","Ლ","Მ","Ნ","Ო","Პ","Ჟ","Რ",
    "Ს","Ტ","Უ","Ფ","Ქ","Ღ","Ყ","Შ","Ჩ","Ც","Ძ","Წ","Ჭ","Ხ","Ჯ","Ჰ","Ჱ","Ჲ","Ჳ","Ჴ","Ჵ","Ჶ","Ჷ",
    "Ჸ","Ჹ","Ჺ","᲻","᲼","Ჽ","Ჾ","Ჿ","᳀","᳁","᳂","᳃","᳄","᳅","᳆","᳇","᳈","᳉","᳊","᳋","᳌","᳍","᳎",
    "᳏","᳐","᳑","᳒","᳓","᳔","᳕","᳖","᳗","᳘","᳙","᳚","᳛","᳜","᳝","᳞","᳟","᳠","᳡","᳢","᳣","᳤","᳥",
    "᳦","᳧","᳨","ᳩ","ᳪ","ᳫ","ᳬ","᳭","ᳮ","ᳯ","ᳰ","ᳱ","ᳲ","ᳳ","᳴","ᳵ","ᳶ","᳷","᳸","᳹","ᳺ","᳻","᳼",
    "᳽","᳾","᳿","ᶀ","ᶁ","ᶂ","ᶃ","ᶄ","ᶅ","ᶆ","ᶇ","ᶈ","ᶉ","ᶊ","ᶋ","ᶌ","ᶍ","ᶎ","ᶏ","ᶐ","ᶑ","ᶒ","ᶓ",
    "ᶔ","ᶕ","ᶖ","ᶗ","ᶘ","ᶙ","ᶚ","ᶛ","ᶜ","ᶝ","ᶞ","ᶟ","ᶠ","ᶡ","ᶢ","ᶣ","ᶤ","ᶥ","ᶦ","ᶧ","ᶨ","ᶩ","ᶪ",
    "ᶫ","ᶬ","ᶭ","ᶮ","ᶯ","ᶰ","ᶱ","ᶲ","ᶳ","ᶴ","ᶵ","ᶶ","ᶷ","ᶸ","ᶹ","ᶺ","ᶻ","ᶼ","ᶽ","ᶾ","ᶿ","᷀","᷁",
    "᷂","᷃","᷄","᷅","᷆","᷇","᷈","᷉","᷊","᷋","᷌","᷍","᷎","᷏","᷐","᷑","᷒","ᷓ","ᷔ","ᷕ","ᷖ","ᷗ","ᷘ",
    "ᷙ","ᷚ","ᷛ","ᷜ","ᷝ","ᷞ","ᷟ","ᷠ","ᷡ","ᷢ","ᷣ","ᷤ","ᷥ","ᷦ","ᷧ","ᷨ","ᷩ","ᷪ","ᷫ","ᷬ","ᷭ","ᷮ","ᷯ",
    "ᷰ","ᷱ","ᷲ","ᷳ","ᷴ","᷵","᷶","᷷","᷸","᷹","᷺","᷻","᷼","᷽","᷾","᷿","Ẁ","ẁ","Ẃ","ẃ","Ẅ","ẅ","Ẇ",
    "ẇ","Ẉ","ẉ","Ẋ","ẋ","Ẍ","ẍ","Ẏ","ẏ","Ẑ","ẑ","Ẓ","ẓ","Ẕ","ẕ","ẖ","ẗ","ẘ","ẙ","ẚ","ẛ","ẜ","ẝ",
    "ẞ","ẟ","Ạ","ạ","Ả","ả","Ấ","ấ","Ầ","ầ","Ẩ","ẩ","Ẫ","ẫ","Ậ","ậ","Ắ","ắ","Ằ","ằ","Ẳ","ẳ","Ẵ",
    "ẵ","Ặ","ặ","Ẹ","ẹ","Ẻ","ẻ","Ẽ","ẽ","Ế","ế","Ề","ề","Ể","ể","Ễ","ễ","Ệ","ệ","Ỉ","ỉ","Ị","ị",
    "Ọ","ọ","Ỏ","ỏ","Ố","ố","Ồ","ồ","Ổ","ổ","Ỗ","ỗ","Ộ","ộ","Ớ","ớ","Ờ","ờ","Ở","ở","Ỡ","ỡ","Ợ",
    "ợ","Ụ","ụ","Ủ","ủ","Ứ","ứ","Ừ","ừ","Ử","ử","Ữ","ữ","Ự","ự","Ỳ","ỳ","Ỵ","ỵ","Ỷ","ỷ","Ỹ","ỹ",
    "Ỻ","ỻ","Ỽ","ỽ","Ỿ","ỿ","ᾀ","ᾁ","ᾂ","ᾃ","ᾄ","ᾅ","ᾆ","ᾇ","ᾈ","ᾉ","ᾊ","ᾋ","ᾌ","ᾍ","ᾎ","ᾏ","ᾐ",
    "ᾑ","ᾒ","ᾓ","ᾔ","ᾕ","ᾖ","ᾗ","ᾘ","ᾙ","ᾚ","ᾛ","ᾜ","ᾝ","ᾞ","ᾟ","ᾠ","ᾡ","ᾢ","ᾣ","ᾤ","ᾥ","ᾦ","ᾧ",
    "ᾨ","ᾩ","ᾪ","ᾫ","ᾬ","ᾭ","ᾮ","ᾯ","ᾰ","ᾱ","ᾲ","ᾳ","ᾴ","᾵","ᾶ","ᾷ","Ᾰ","Ᾱ","Ὰ","Ά","ᾼ","᾽","ι",
    "᾿","῀","῁","ῂ","ῃ","ῄ","῅","ῆ","ῇ","Ὲ","Έ","Ὴ","Ή","ῌ","῍","῎","῏","ῐ","ῑ","ῒ","ΐ","῔","῕",
    "ῖ","ῗ","Ῐ","Ῑ","Ὶ","Ί","῜","῝","῞","῟","ῠ","ῡ","ῢ","ΰ","ῤ","ῥ","ῦ","ῧ","Ῠ","Ῡ","Ὺ","Ύ","Ῥ",
    "῭","΅","`","῰","῱","ῲ","ῳ","ῴ","῵","ῶ","ῷ","Ὸ","Ό","Ὼ","Ώ","ῼ","´","῾","῿","₀","₁","₂","₃",
    "₄","₅","₆","₇","₈","₉","₊","₋","₌","₍","₎","₏","ₐ","ₑ","ₒ","ₓ","ₔ","ₕ","ₖ","ₗ","ₘ","ₙ","ₚ",
    "ₛ","ₜ","₝","₞","₟","₠","₡","₢","₣","₤","₥","₦","₧","₨","₩","₪","₫","€","₭","₮","₯","₰","₱",
    "₲","₳","₴","₵","₶","₷","₸","₹","₺","₻","₼","₽","₾","₿","⃀","⃁","⃂","⃃","⃄","⃅","⃆","⃇","⃈",
    "⃉","⃊","⃋","⃌","⃍","⃎","⃏","⃐","⃑","⃒","⃓","⃔","⃕","⃖","⃗","⃘","⃙","⃚","⃛","⃜","⃝","⃞","⃟",
    "⃠","⃡","⃢","⃣","⃤","⃥","⃦","⃧","⃨","⃩","⃪","⃫","⃬","⃭","⃮","⃯","⃰","⃱","⃲","⃳","⃴","⃵","⃶",
    "⃷","⃸","⃹","⃺","⃻","⃼","⃽","⃾","⃿","ↀ","ↁ","ↂ","Ↄ","ↄ","ↅ","ↆ","ↇ","ↈ","↉","↊","↋","↌","↍",
    "↎","↏","←","↑","→","↓","↔","↕","↖","↗","↘","↙","↚","↛","↜","↝","↞","↟","↠","↡","↢","↣","↤",
    "↥","↦","↧","↨","↩","↪","↫","↬","↭","↮","↯","↰","↱","↲","↳","↴","↵","↶","↷","↸","↹","↺","↻",
    "↼","↽","↾","↿","⇀","⇁","⇂","⇃","⇄","⇅","⇆","⇇","⇈","⇉","⇊","⇋","⇌","⇍","⇎","⇏","⇐","⇑","⇒",
    "⇓","⇔","⇕","⇖","⇗","⇘","⇙","⇚","⇛","⇜","⇝","⇞","⇟","⇠","⇡","⇢","⇣","⇤","⇥","⇦","⇧","⇨","⇩",
    "⇪","⇫","⇬","⇭","⇮","⇯","⇰","⇱","⇲","⇳","⇴","⇵","⇶","⇷","⇸","⇹","⇺","⇻","⇼","⇽","⇾","⇿","⊀",
    "⊁","⊂","⊃","⊄","⊅","⊆","⊇","⊈","⊉","⊊","⊋","⊌","⊍","⊎","⊏","⊐","⊑","⊒","⊓","⊔","⊕","⊖","⊗",
    "⊘","⊙","⊚","⊛","⊜","⊝","⊞","⊟","⊠","⊡","⊢","⊣","⊤","⊥","⊦","⊧","⊨","⊩","⊪","⊫","⊬","⊭","⊮",
    "⊯","⊰","⊱","⊲","⊳","⊴","⊵","⊶","⊷","⊸","⊹","⊺","⊻","⊼","⊽","⊾","⊿","⋀","⋁","⋂","⋃","⋄","⋅",
    "⋆","⋇","⋈","⋉","⋊","⋋","⋌","⋍","⋎","⋏","⋐","⋑","⋒","⋓","⋔","⋕","⋖","⋗","⋘","⋙","⋚","⋛","⋜",
    "⋝","⋞","⋟","⋠","⋡","⋢","⋣","⋤","⋥","⋦","⋧","⋨","⋩","⋪","⋫","⋬","⋭","⋮","⋯","⋰","⋱","⋲","⋳",
    "⋴","⋵","⋶","⋷","⋸","⋹","⋺","⋻","⋼","⋽","⋾","⋿","⎀","⎁","⎂","⎃","⎄","⎅","⎆","⎇","⎈","⎉","⎊",
    "⎋","⎌","⎍","⎎","⎏","⎐","⎑","⎒","⎓","⎔","⎕","⎖","⎗","⎘","⎙","⎚","⎛","⎜","⎝","⎞","⎟","⎠","⎡",
    "⎢","⎣","⎤","⎥","⎦","⎧","⎨","⎩","⎪","⎫","⎬","⎭","⎮","⎯","⎰","⎱","⎲","⎳","⎴","⎵","⎶","⎷","⎸",
    "⎹","⎺","⎻","⎼","⎽","⎾","⎿","⏀","⏁","⏂","⏃","⏄","⏅","⏆","⏇","⏈","⏉","⏊","⏋","⏌","⏍","⏎","⏏",
    "⏐","⏑","⏒","⏓","⏔","⏕","⏖","⏗","⏘","⏙","⏚","⏛","⏜","⏝","⏞","⏟","⏠","⏡","⏢","⏣","⏤","⏥","⏦",
    "⏧","⏨","⏩","⏪","⏫","⏬","⏭","⏮","⏯","⏰","⏱","⏲","⏳","⏴","⏵","⏶","⏷","⏸","⏹","⏺","⏻","⏼","⏽",
    "⏾","⏿","⒀","⒁","⒂","⒃","⒄","⒅","⒆","⒇","⒈","⒉","⒊","⒋","⒌","⒍","⒎","⒏","⒐","⒑","⒒","⒓","⒔",
    "⒕","⒖","⒗","⒘","⒙","⒚","⒛","⒜","⒝","⒞","⒟","⒠","⒡","⒢","⒣","⒤","⒥","⒦","⒧","⒨","⒩","⒪","⒫",
    "⒬","⒭","⒮","⒯","⒰","⒱","⒲","⒳","⒴","⒵","Ⓐ","Ⓑ","Ⓒ","Ⓓ","Ⓔ","Ⓕ","Ⓖ","Ⓗ","Ⓘ","Ⓙ","Ⓚ","Ⓛ","Ⓜ",
    "Ⓝ","Ⓞ","Ⓟ","Ⓠ","Ⓡ","Ⓢ","Ⓣ","Ⓤ","Ⓥ","Ⓦ","Ⓧ","Ⓨ","Ⓩ","ⓐ","ⓑ","ⓒ","ⓓ","ⓔ","ⓕ","ⓖ","ⓗ","ⓘ","ⓙ",
    "ⓚ","ⓛ","ⓜ","ⓝ","ⓞ","ⓟ","ⓠ","ⓡ","ⓢ","ⓣ","ⓤ","ⓥ","ⓦ","ⓧ","ⓨ","ⓩ","⓪","⓫","⓬","⓭","⓮","⓯","⓰",
    "⓱","⓲","⓳","⓴","⓵","⓶","⓷","⓸","⓹","⓺","⓻","⓼","⓽","⓾","⓿","▀","▁","▂","▃","▄","▅","▆","▇",
    "█","▉","▊","▋","▌","▍","▎","▏","▐","░","▒","▓","▔","▕","▖","▗","▘","▙","▚","▛","▜","▝","▞",
    "▟","■","□","▢","▣","▤","▥","▦","▧","▨","▩","▪","▫","▬","▭","▮","▯","▰","▱","▲","△","▴","▵",
    "▶","▷","▸","▹","►","▻","▼","▽","▾","▿","◀","◁","◂","◃","◄","◅","◆","◇","◈","◉","◊","○","◌",
    "◍","◎","●","◐","◑","◒","◓","◔","◕","◖","◗","◘","◙","◚","◛","◜","◝","◞","◟","◠","◡","◢","◣",
    "◤","◥","◦","◧","◨","◩","◪","◫","◬","◭","◮","◯","◰","◱","◲","◳","◴","◵","◶","◷","◸","◹","◺",
    "◻","◼","◽","◾","◿","⚀","⚁","⚂","⚃","⚄","⚅","⚆","⚇","⚈","⚉","⚊","⚋","⚌","⚍","⚎","⚏","⚐","⚑",
    "⚒","⚓","⚔","⚕","⚖","⚗","⚘","⚙","⚚","⚛","⚜","⚝","⚞","⚟","⚠","⚡","⚢","⚣","⚤","⚥","⚦","⚧","⚨",
    "⚩","⚪","⚫","⚬","⚭","⚮","⚯","⚰","⚱","⚲","⚳","⚴","⚵","⚶","⚷","⚸","⚹","⚺","⚻","⚼","⚽","⚾","⚿",
    "⛀","⛁","⛂","⛃","⛄","⛅","⛆","⛇","⛈","⛉","⛊","⛋","⛌","⛍","⛎","⛏","⛐","⛑","⛒","⛓","⛔","⛕","⛖",
    "⛗","⛘","⛙","⛚","⛛","⛜","⛝","⛞","⛟","⛠","⛡","⛢","⛣","⛤","⛥","⛦","⛧","⛨","⛩","⛪","⛫","⛬","⛭",
    "⛮","⛯","⛰","⛱","⛲","⛳","⛴","⛵","⛶","⛷","⛸","⛹","⛺","⛻","⛼","⛽","⛾","⛿","➀","➁","➂","➃","➄",
    "➅","➆","➇","➈","➉","➊","➋","➌","➍","➎","➏","➐","➑","➒","➓","➔","➕","➖","➗","➘","➙","➚","➛",
    "➜","➝","➞","➟","➠","➡","➢","➣","➤","➥","➦","➧","➨","➩","➪","➫","➬","➭","➮","➯","➰","➱","➲",
    "➳","➴","➵","➶","➷","➸","➹","➺","➻","➼","➽","➾","➿","⟀","⟁","⟂","⟃","⟄","⟅","⟆","⟇","⟈","⟉",
    "⟊","⟋","⟌","⟍","⟎","⟏","⟐","⟑","⟒","⟓","⟔","⟕","⟖","⟗","⟘","⟙","⟚","⟛","⟜","⟝","⟞","⟟","⟠",
    "⟡","⟢","⟣","⟤","⟥","⟦","⟧","⟨","⟩","⟪","⟫","⟬","⟭","⟮","⟯","⟰","⟱","⟲","⟳","⟴","⟵","⟶","⟷",
    "⟸","⟹","⟺","⟻","⟼","⟽","⟾","⟿","⢀","⢁","⢂","⢃","⢄","⢅","⢆","⢇","⢈","⢉","⢊","⢋","⢌","⢍","⢎",
    "⢏","⢐","⢑","⢒","⢓","⢔","⢕","⢖","⢗","⢘","⢙","⢚","⢛","⢜","⢝","⢞","⢟","⢠","⢡","⢢","⢣","⢤","⢥",
    "⢦","⢧","⢨","⢩","⢪","⢫","⢬","⢭","⢮","⢯","⢰","⢱","⢲","⢳","⢴","⢵","⢶","⢷","⢸","⢹","⢺","⢻","⢼",
    "⢽","⢾","⢿","⣀","⣁","⣂","⣃","⣄","⣅","⣆","⣇","⣈","⣉","⣊","⣋","⣌","⣍","⣎","⣏","⣐","⣑","⣒","⣓",
    "⣔","⣕","⣖","⣗","⣘","⣙","⣚","⣛","⣜","⣝","⣞","⣟","⣠","⣡","⣢","⣣","⣤","⣥","⣦","⣧","⣨","⣩","⣪",
    "⣫","⣬","⣭","⣮","⣯","⣰","⣱","⣲","⣳","⣴","⣵","⣶","⣷","⣸","⣹","⣺","⣻","⣼","⣽","⣾","⣿","⦀","⦁",
    "⦂","⦃","⦄","⦅","⦆","⦇","⦈","⦉","⦊","⦋","⦌","⦍","⦎","⦏","⦐","⦑","⦒","⦓","⦔","⦕","⦖","⦗","⦘",
    "⦙","⦚","⦛","⦜","⦝","⦞","⦟","⦠","⦡","⦢","⦣","⦤","⦥","⦦","⦧","⦨","⦩","⦪","⦫","⦬","⦭","⦮","⦯",
    "⦰","⦱","⦲","⦳","⦴","⦵","⦶","⦷","⦸","⦹","⦺","⦻","⦼","⦽","⦾","⦿","⧀","⧁","⧂","⧃","⧄","⧅","⧆",
    "⧇","⧈","⧉","⧊","⧋","⧌","⧍","⧎","⧏","⧐","⧑","⧒","⧓","⧔","⧕","⧖","⧗","⧘","⧙","⧚","⧛","⧜","⧝",
    "⧞","⧟","⧠","⧡","⧢","⧣","⧤","⧥","⧦","⧧","⧨","⧩","⧪","⧫","⧬","⧭","⧮","⧯","⧰","⧱","⧲","⧳","⧴",
    "⧵","⧶","⧷","⧸","⧹","⧺","⧻","⧼","⧽","⧾","⧿","⪀","⪁","⪂","⪃","⪄","⪅","⪆","⪇","⪈","⪉","⪊","⪋",
    "⪌","⪍","⪎","⪏","⪐","⪑","⪒","⪓","⪔","⪕","⪖","⪗","⪘","⪙","⪚","⪛","⪜","⪝","⪞","⪟","⪠","⪡","⪢",
    "⪣","⪤","⪥","⪦","⪧","⪨","⪩","⪪","⪫","⪬","⪭","⪮","⪯","⪰","⪱","⪲","⪳","⪴","⪵","⪶","⪷","⪸","⪹",
    "⪺","⪻","⪼","⪽","⪾","⪿","⫀","⫁","⫂","⫃","⫄","⫅","⫆","⫇","⫈","⫉","⫊","⫋","⫌","⫍","⫎","⫏","⫐",
    "⫑","⫒","⫓","⫔","⫕","⫖","⫗","⫘","⫙","⫚","⫛","⫝̸","⫝","⫞","⫟","⫠","⫡","⫢","⫣","⫤","⫥","⫦","⫧",
    "⫨","⫩","⫪","⫫","⫬","⫭","⫮","⫯","⫰","⫱","⫲","⫳","⫴","⫵","⫶","⫷","⫸","⫹","⫺","⫻","⫼","⫽","⫾",
    "⫿","⮀","⮁","⮂","⮃","⮄","⮅","⮆","⮇","⮈","⮉","⮊","⮋","⮌","⮍","⮎","⮏","⮐","⮑","⮒","⮓","⮔","⮕",
    "⮖","⮗","⮘","⮙","⮚","⮛","⮜","⮝","⮞","⮟","⮠","⮡","⮢","⮣","⮤","⮥","⮦","⮧","⮨","⮩","⮪","⮫","⮬",
    "⮭","⮮","⮯","⮰","⮱","⮲","⮳","⮴","⮵","⮶","⮷","⮸","⮹","⮺","⮻","⮼","⮽","⮾","⮿","⯀","⯁","⯂","⯃",
    "⯄","⯅","⯆","⯇","⯈","⯉","⯊","⯋","⯌","⯍","⯎","⯏","⯐","⯑","⯒","⯓","⯔","⯕","⯖","⯗","⯘","⯙","⯚",
    "⯛","⯜","⯝","⯞","⯟","⯠","⯡","⯢","⯣","⯤","⯥","⯦","⯧","⯨","⯩","⯪","⯫","⯬","⯭","⯮","⯯","⯰","⯱",
    "⯲","⯳","⯴","⯵","⯶","⯷","⯸","⯹","⯺","⯻","⯼","⯽","⯾","⯿","Ⲁ","ⲁ","Ⲃ","ⲃ","Ⲅ","ⲅ","Ⲇ","ⲇ","Ⲉ",
    "ⲉ","Ⲋ","ⲋ","Ⲍ","ⲍ","Ⲏ","ⲏ","Ⲑ","ⲑ","Ⲓ","ⲓ","Ⲕ","ⲕ","Ⲗ","ⲗ","Ⲙ","ⲙ","Ⲛ","ⲛ","Ⲝ","ⲝ","Ⲟ","ⲟ",
    "Ⲡ","ⲡ","Ⲣ","ⲣ","Ⲥ","ⲥ","Ⲧ","ⲧ","Ⲩ","ⲩ","Ⲫ","ⲫ","Ⲭ","ⲭ","Ⲯ","ⲯ","Ⲱ","ⲱ","Ⲳ","ⲳ","Ⲵ","ⲵ","Ⲷ",
    "ⲷ","Ⲹ","ⲹ","Ⲻ","ⲻ","Ⲽ","ⲽ","Ⲿ","ⲿ","Ⳁ","ⳁ","Ⳃ","ⳃ","Ⳅ","ⳅ","Ⳇ","ⳇ","Ⳉ","ⳉ","Ⳋ","ⳋ","Ⳍ","ⳍ",
    "Ⳏ","ⳏ","Ⳑ","ⳑ","Ⳓ","ⳓ","Ⳕ","ⳕ","Ⳗ","ⳗ","Ⳙ","ⳙ","Ⳛ","ⳛ","Ⳝ","ⳝ","Ⳟ","ⳟ","Ⳡ","ⳡ","Ⳣ","ⳣ","ⳤ",
    "⳥","⳦","⳧","⳨","⳩","⳪","Ⳬ","ⳬ","Ⳮ","ⳮ","⳯","⳰","⳱","Ⳳ","ⳳ","⳴","⳵","⳶","⳷","⳸","⳹","⳺","⳻",
    "⳼","⳽","⳾","⳿","ⶀ","ⶁ","ⶂ","ⶃ","ⶄ","ⶅ","ⶆ","ⶇ","ⶈ","ⶉ","ⶊ","ⶋ","ⶌ","ⶍ","ⶎ","ⶏ","ⶐ","ⶑ","ⶒ",
    "ⶓ","ⶔ","ⶕ","ⶖ","⶗","⶘","⶙","⶚","⶛","⶜","⶝","⶞","⶟","ⶠ","ⶡ","ⶢ","ⶣ","ⶤ","ⶥ","ⶦ","⶧","ⶨ","ⶩ",
    "ⶪ","ⶫ","ⶬ","ⶭ","ⶮ","⶯","ⶰ","ⶱ","ⶲ","ⶳ","ⶴ","ⶵ","ⶶ","⶷","ⶸ","ⶹ","ⶺ","ⶻ","ⶼ","ⶽ","ⶾ","⶿","ⷀ",
    "ⷁ","ⷂ","ⷃ","ⷄ","ⷅ","ⷆ","⷇","ⷈ","ⷉ","ⷊ","ⷋ","ⷌ","ⷍ","ⷎ","⷏","ⷐ","ⷑ","ⷒ","ⷓ","ⷔ","ⷕ","ⷖ","⷗",
    "ⷘ","ⷙ","ⷚ","ⷛ","ⷜ","ⷝ","ⷞ","⷟","ⷠ","ⷡ","ⷢ","ⷣ","ⷤ","ⷥ","ⷦ","ⷧ","ⷨ","ⷩ","ⷪ","ⷫ","ⷬ","ⷭ","ⷮ",
    "ⷯ","ⷰ","ⷱ","ⷲ","ⷳ","ⷴ","ⷵ","ⷶ","ⷷ","ⷸ","ⷹ","ⷺ","ⷻ","ⷼ","ⷽ","ⷾ","ⷿ","⺀","⺁","⺂","⺃","⺄","⺅",
    "⺆","⺇","⺈","⺉","⺊","⺋","⺌","⺍","⺎","⺏","⺐","⺑","⺒","⺓","⺔","⺕","⺖","⺗","⺘","⺙","⺚","⺛","⺜",
    "⺝","⺞","⺟","⺠","⺡","⺢","⺣","⺤","⺥","⺦","⺧","⺨","⺩","⺪","⺫","⺬","⺭","⺮","⺯","⺰","⺱","⺲","⺳",
    "⺴","⺵","⺶","⺷","⺸","⺹","⺺","⺻","⺼","⺽","⺾","⺿","⻀","⻁","⻂","⻃","⻄","⻅","⻆","⻇","⻈","⻉","⻊",
    "⻋","⻌","⻍","⻎","⻏","⻐","⻑","⻒","⻓","⻔","⻕","⻖","⻗","⻘","⻙","⻚","⻛","⻜","⻝","⻞","⻟","⻠","⻡",
    "⻢","⻣","⻤","⻥","⻦","⻧","⻨","⻩","⻪","⻫","⻬","⻭","⻮","⻯","⻰","⻱","⻲","⻳","⻴","⻵","⻶","⻷","⻸",
    "⻹","⻺","⻻","⻼","⻽","⻾","⻿","⾀","⾁","⾂","⾃","⾄","⾅","⾆","⾇","⾈","⾉","⾊","⾋","⾌","⾍","⾎","⾏",
    "⾐","⾑","⾒","⾓","⾔","⾕","⾖","⾗","⾘","⾙","⾚","⾛","⾜","⾝","⾞","⾟","⾠","⾡","⾢","⾣","⾤","⾥","⾦",
    "⾧","⾨","⾩","⾪","⾫","⾬","⾭","⾮","⾯","⾰","⾱","⾲","⾳","⾴","⾵","⾶","⾷","⾸","⾹","⾺","⾻","⾼","⾽",
    "⾾","⾿","⿀","⿁","⿂","⿃","⿄","⿅","⿆","⿇","⿈","⿉","⿊","⿋","⿌","⿍","⿎","⿏","⿐","⿑","⿒","⿓","⿔",
    "⿕","⿖","⿗","⿘","⿙","⿚","⿛","⿜","⿝","⿞","⿟","⿠","⿡","⿢","⿣","⿤","⿥","⿦","⿧","⿨","⿩","⿪","⿫",
    "⿬","⿭","⿮","⿯","⿰","⿱","⿲","⿳","⿴","⿵","⿶","⿷","⿸","⿹","⿺","⿻","⿼","⿽","⿾","⿿","む","め","も",
    "ゃ","や","ゅ","ゆ","ょ","よ","ら","り","る","れ","ろ","ゎ","わ","ゐ","ゑ","を","ん","ゔ","ゕ","ゖ","゗","゘","゙",
    "゚","゛","゜","ゝ","ゞ","ゟ","゠","ァ","ア","ィ","イ","ゥ","ウ","ェ","エ","ォ","オ","カ","ガ","キ","ギ","ク","グ",
    "ケ","ゲ","コ","ゴ","サ","ザ","シ","ジ","ス","ズ","セ","ゼ","ソ","ゾ","タ","ダ","チ","ヂ","ッ","ツ","ヅ","テ","デ",
    "ト","ド","ナ","ニ","ヌ","ネ","ノ","ハ","バ","パ","ヒ","ビ","ピ","フ","ブ","プ","ヘ","ベ","ペ","ホ","ボ","ポ","マ",
    "ミ","ム","メ","モ","ャ","ヤ","ュ","ユ","ョ","ヨ","ラ","リ","ル","レ","ロ","ヮ","ワ","ヰ","ヱ","ヲ","ン","ヴ","ヵ",
    "ヶ","ヷ","ヸ","ヹ","ヺ","・","ー","ヽ","ヾ","ヿ","ㆀ","ㆁ","ㆂ","ㆃ","ㆄ","ㆅ","ㆆ","ㆇ","ㆈ","ㆉ","ㆊ","ㆋ","ㆌ",
    "ㆍ","ㆎ","㆏","㆐","㆑","㆒","㆓","㆔","㆕","㆖","㆗","㆘","㆙","㆚","㆛","㆜","㆝","㆞","㆟","ㆠ","ㆡ","ㆢ","ㆣ",
    "ㆤ","ㆥ","ㆦ","ㆧ","ㆨ","ㆩ","ㆪ","ㆫ","ㆬ","ㆭ","ㆮ","ㆯ","ㆰ","ㆱ","ㆲ","ㆳ","ㆴ","ㆵ","ㆶ","ㆷ","ㆸ","ㆹ","ㆺ",
    "ㆻ","ㆼ","ㆽ","ㆾ","ㆿ","㇀","㇁","㇂","㇃","㇄","㇅","㇆","㇇","㇈","㇉","㇊","㇋","㇌","㇍","㇎","㇏","㇐","㇑",
    "㇒","㇓","㇔","㇕","㇖","㇗","㇘","㇙","㇚","㇛","㇜","㇝","㇞","㇟","㇠","㇡","㇢","㇣","㇤","㇥","㇦","㇧","㇨",
    "㇩","㇪","㇫","㇬","㇭","㇮","㇯","ㇰ","ㇱ","ㇲ","ㇳ","ㇴ","ㇵ","ㇶ","ㇷ","ㇸ","ㇹ","ㇺ","ㇻ","ㇼ","ㇽ","ㇾ","ㇿ",
    "㊀","㊁","㊂","㊃","㊄","㊅","㊆","㊇","㊈","㊉","㊊","㊋","㊌","㊍","㊎","㊏","㊐","㊑","㊒","㊓","㊔","㊕","㊖",
    "㊗","㊘","㊙","㊚","㊛","㊜","㊝","㊞","㊟","㊠","㊡","㊢","㊣","㊤","㊥","㊦","㊧","㊨","㊩","㊪","㊫","㊬","㊭",
    "㊮","㊯","㊰","㊱","㊲","㊳","㊴","㊵","㊶","㊷","㊸","㊹","㊺","㊻","㊼","㊽","㊾","㊿","㋀","㋁","㋂","㋃","㋄",
    "㋅","㋆","㋇","㋈","㋉","㋊","㋋","㋌","㋍","㋎","㋏","㋐","㋑","㋒","㋓","㋔","㋕","㋖","㋗","㋘","㋙","㋚","㋛",
    "㋜","㋝","㋞","㋟","㋠","㋡","㋢","㋣","㋤","㋥","㋦","㋧","㋨","㋩","㋪","㋫","㋬","㋭","㋮","㋯","㋰","㋱","㋲",
    "㋳","㋴","㋵","㋶","㋷","㋸","㋹","㋺","㋻","㋼","㋽","㋾","㋿","㎀","㎁","㎂","㎃","㎄","㎅","㎆","㎇","㎈","㎉",
    "㎊","㎋","㎌","㎍","㎎","㎏","㎐","㎑","㎒","㎓","㎔","㎕","㎖","㎗","㎘","㎙","㎚","㎛","㎜","㎝","㎞","㎟","㎠",
    "㎡","㎢","㎣","㎤","㎥","㎦","㎧","㎨","㎩","㎪","㎫","㎬","㎭","㎮","㎯","㎰","㎱","㎲","㎳","㎴","㎵","㎶","㎷",
    "㎸","㎹","㎺","㎻","㎼","㎽","㎾","㎿","㏀","㏁","㏂","㏃","㏄","㏅","㏆","㏇","㏈","㏉","㏊","㏋","㏌","㏍","㏎",
    "㏏","㏐","㏑","㏒","㏓","㏔","㏕","㏖","㏗","㏘","㏙","㏚","㏛","㏜","㏝","㏞","㏟","㏠","㏡","㏢","㏣","㏤","㏥",
    "㏦","㏧","㏨","㏩","㏪","㏫","㏬","㏭","㏮","㏯","㏰","㏱","㏲","㏳","㏴","㏵","㏶","㏷","㏸","㏹","㏺","㏻","㏼",
    "㏽","㏾","㏿","㒀","㒁","㒂","㒃","㒄","㒅","㒆","㒇","㒈","㒉","㒊","㒋","㒌","㒍","㒎","㒏","㒐","㒑","㒒","㒓",
    "㒔","㒕","㒖","㒗","㒘","㒙","㒚","㒛","㒜","㒝","㒞","㒟","㒠","㒡","㒢","㒣","㒤","㒥","㒦","㒧","㒨","㒩","㒪",
    "㒫","㒬","㒭","㒮","㒯","㒰","㒱","㒲","㒳","㒴","㒵","㒶","㒷","㒸","㒹","㒺","㒻","㒼","㒽","㒾","㒿","㓀","㓁",
    "㓂","㓃","㓄","㓅","㓆","㓇","㓈","㓉","㓊","㓋","㓌","㓍","㓎","㓏","㓐","㓑","㓒","㓓","㓔","㓕","㓖","㓗","㓘",
    "㓙","㓚","㓛","㓜","㓝","㓞","㓟","㓠","㓡","㓢","㓣","㓤","㓥","㓦","㓧","㓨","㓩","㓪","㓫","㓬","㓭","㓮","㓯",
    "㓰","㓱","㓲","㓳","㓴","㓵","㓶","㓷","㓸","㓹","㓺","㓻","㓼","㓽","㓾","㓿","㖀","㖁","㖂","㖃","㖄","㖅","㖆",
    "㖇","㖈","㖉","㖊","㖋","㖌","㖍","㖎","㖏","㖐","㖑","㖒","㖓","㖔","㖕","㖖","㖗","㖘","㖙","㖚","㖛","㖜","㖝",
    "㖞","㖟","㖠","㖡","㖢","㖣","㖤","㖥","㖦","㖧","㖨","㖩","㖪","㖫","㖬","㖭","㖮","㖯","㖰","㖱","㖲","㖳","㖴",
    "㖵","㖶","㖷","㖸","㖹","㖺","㖻","㖼","㖽","㖾","㖿","㗀","㗁","㗂","㗃","㗄","㗅","㗆","㗇","㗈","㗉","㗊","㗋",
    "㗌","㗍","㗎","㗏","㗐","㗑","㗒","㗓","㗔","㗕","㗖","㗗","㗘","㗙","㗚","㗛","㗜","㗝","㗞","㗟","㗠","㗡","㗢",
    "㗣","㗤","㗥","㗦","㗧","㗨","㗩","㗪","㗫","㗬","㗭","㗮","㗯","㗰","㗱","㗲","㗳","㗴","㗵","㗶","㗷","㗸","㗹",
    "㗺","㗻","㗼","㗽","㗾","㗿","㚀","㚁","㚂","㚃","㚄","㚅","㚆","㚇","㚈","㚉","㚊","㚋","㚌","㚍","㚎","㚏","㚐",
    "㚑","㚒","㚓","㚔","㚕","㚖","㚗","㚘","㚙","㚚","㚛","㚜","㚝","㚞","㚟","㚠","㚡","㚢","㚣","㚤","㚥","㚦","㚧",
    "㚨","㚩","㚪","㚫","㚬","㚭","㚮","㚯","㚰","㚱","㚲","㚳","㚴","㚵","㚶","㚷","㚸","㚹","㚺","㚻","㚼","㚽","㚾",
    "㚿","㛀","㛁","㛂","㛃","㛄","㛅","㛆","㛇","㛈","㛉","㛊","㛋","㛌","㛍","㛎","㛏","㛐","㛑","㛒","㛓","㛔","㛕",
    "㛖","㛗","㛘","㛙","㛚","㛛","㛜","㛝","㛞","㛟","㛠","㛡","㛢","㛣","㛤","㛥","㛦","㛧","㛨","㛩","㛪","㛫","㛬",
    "㛭","㛮","㛯","㛰","㛱","㛲","㛳","㛴","㛵","㛶","㛷","㛸","㛹","㛺","㛻","㛼","㛽","㛾","㛿","㞀","㞁","㞂","㞃",
    "㞄","㞅","㞆","㞇","㞈","㞉","㞊","㞋","㞌","㞍","㞎","㞏","㞐","㞑","㞒","㞓","㞔","㞕","㞖","㞗","㞘","㞙","㞚",
    "㞛","㞜","㞝","㞞","㞟","㞠","㞡","㞢","㞣","㞤","㞥","㞦","㞧","㞨","㞩","㞪","㞫","㞬","㞭","㞮","㞯","㞰","㞱",
    "㞲","㞳","㞴","㞵","㞶","㞷","㞸","㞹","㞺","㞻","㞼","㞽","㞾","㞿","㟀","㟁","㟂","㟃","㟄","㟅","㟆","㟇","㟈",
    "㟉","㟊","㟋","㟌","㟍","㟎","㟏","㟐","㟑","㟒","㟓","㟔","㟕","㟖","㟗","㟘","㟙","㟚","㟛","㟜","㟝","㟞","㟟",
    "㟠","㟡","㟢","㟣","㟤","㟥","㟦","㟧","㟨","㟩","㟪","㟫","㟬","㟭","㟮","㟯","㟰","㟱","㟲","㟳","㟴","㟵","㟶",
    "㟷","㟸","㟹","㟺","㟻","㟼","㟽","㟾","㟿","㢀","㢁","㢂","㢃","㢄","㢅","㢆","㢇","㢈","㢉","㢊","㢋","㢌","㢍",
    "㢎","㢏","㢐","㢑","㢒","㢓","㢔","㢕","㢖","㢗","㢘","㢙","㢚","㢛","㢜","㢝","㢞","㢟","㢠","㢡","㢢","㢣","㢤",
    "㢥","㢦","㢧","㢨","㢩","㢪","㢫","㢬","㢭","㢮","㢯","㢰","㢱","㢲","㢳","㢴","㢵","㢶","㢷","㢸","㢹","㢺","㢻",
    "㢼","㢽","㢾","㢿","㣀","㣁","㣂","㣃","㣄","㣅","㣆","㣇","㣈","㣉","㣊","㣋","㣌","㣍","㣎","㣏","㣐","㣑","㣒",
    "㣓","㣔","㣕","㣖","㣗","㣘","㣙","㣚","㣛","㣜","㣝","㣞","㣟","㣠","㣡","㣢","㣣","㣤","㣥","㣦","㣧","㣨","㣩",
    "㣪","㣫","㣬","㣭","㣮","㣯","㣰","㣱","㣲","㣳","㣴","㣵","㣶","㣷","㣸","㣹","㣺","㣻","㣼","㣽","㣾","㣿","㦀",
    "㦁","㦂","㦃","㦄","㦅","㦆","㦇","㦈","㦉","㦊","㦋","㦌","㦍","㦎","㦏","㦐","㦑","㦒","㦓","㦔","㦕","㦖","㦗",
    "㦘","㦙","㦚","㦛","㦜","㦝","㦞","㦟","㦠","㦡","㦢","㦣","㦤","㦥","㦦","㦧","㦨","㦩","㦪","㦫","㦬","㦭","㦮",
    "㦯","㦰","㦱","㦲","㦳","㦴","㦵","㦶","㦷","㦸","㦹","㦺","㦻","㦼","㦽","㦾","㦿","㧀","㧁","㧂","㧃","㧄","㧅",
    "㧆","㧇","㧈","㧉","㧊","㧋","㧌","㧍","㧎","㧏","㧐","㧑","㧒","㧓","㧔","㧕","㧖","㧗","㧘","㧙","㧚","㧛","㧜",
    "㧝","㧞","㧟","㧠","㧡","㧢","㧣","㧤","㧥","㧦","㧧","㧨","㧩","㧪","㧫","㧬","㧭","㧮","㧯","㧰","㧱","㧲","㧳",
    "㧴","㧵","㧶","㧷","㧸","㧹","㧺","㧻","㧼","㧽","㧾","㧿","㪀","㪁","㪂","㪃","㪄","㪅","㪆","㪇","㪈","㪉","㪊",
    "㪋","㪌","㪍","㪎","㪏","㪐","㪑","㪒","㪓","㪔","㪕","㪖","㪗","㪘","㪙","㪚","㪛","㪜","㪝","㪞","㪟","㪠","㪡",
    "㪢","㪣","㪤","㪥","㪦","㪧","㪨","㪩","㪪","㪫","㪬","㪭","㪮","㪯","㪰","㪱","㪲","㪳","㪴","㪵","㪶","㪷","㪸",
    "㪹","㪺","㪻","㪼","㪽","㪾","㪿","㫀","㫁","㫂","㫃","㫄","㫅","㫆","㫇","㫈","㫉","㫊","㫋","㫌","㫍","㫎","㫏",
    "㫐","㫑","㫒","㫓","㫔","㫕","㫖","㫗","㫘","㫙","㫚","㫛","㫜","㫝","㫞","㫟","㫠","㫡","㫢","㫣","㫤","㫥","㫦",
    "㫧","㫨","㫩","㫪","㫫","㫬","㫭","㫮","㫯","㫰","㫱","㫲","㫳","㫴","㫵","㫶","㫷","㫸","㫹","㫺","㫻","㫼","㫽",
    "㫾","㫿","㮀","㮁","㮂","㮃","㮄","㮅","㮆","㮇","㮈","㮉","㮊","㮋","㮌","㮍","㮎","㮏","㮐","㮑","㮒","㮓","㮔",
    "㮕","㮖","㮗","㮘","㮙","㮚","㮛","㮜","㮝","㮞","㮟","㮠","㮡","㮢","㮣","㮤","㮥","㮦","㮧","㮨","㮩","㮪","㮫",
    "㮬","㮭","㮮","㮯","㮰","㮱","㮲","㮳","㮴","㮵","㮶","㮷","㮸","㮹","㮺","㮻","㮼","㮽","㮾","㮿","㯀","㯁","㯂",
    "㯃","㯄","㯅","㯆","㯇","㯈","㯉","㯊","㯋","㯌","㯍","㯎","㯏","㯐","㯑","㯒","㯓","㯔","㯕","㯖","㯗","㯘","㯙",
    "㯚","㯛","㯜","㯝","㯞","㯟","㯠","㯡","㯢","㯣","㯤","㯥","㯦","㯧","㯨","㯩","㯪","㯫","㯬","㯭","㯮","㯯","㯰",
    "㯱","㯲","㯳","㯴","㯵","㯶","㯷","㯸","㯹","㯺","㯻","㯼","㯽","㯾","㯿","㲀","㲁","㲂","㲃","㲄","㲅","㲆","㲇",
    "㲈","㲉","㲊","㲋","㲌","㲍","㲎","㲏","㲐","㲑","㲒","㲓","㲔","㲕","㲖","㲗","㲘","㲙","㲚","㲛","㲜","㲝","㲞",
    "㲟","㲠","㲡","㲢","㲣","㲤","㲥","㲦","㲧","㲨","㲩","㲪","㲫","㲬","㲭","㲮","㲯","㲰","㲱","㲲","㲳","㲴","㲵",
    "㲶","㲷","㲸","㲹","㲺","㲻","㲼","㲽","㲾","㲿","㳀","㳁","㳂","㳃","㳄","㳅","㳆","㳇","㳈","㳉","㳊","㳋","㳌",
    "㳍","㳎","㳏","㳐","㳑","㳒","㳓","㳔","㳕","㳖","㳗","㳘","㳙","㳚","㳛","㳜","㳝","㳞","㳟","㳠","㳡","㳢","㳣",
    "㳤","㳥","㳦","㳧","㳨","㳩","㳪","㳫","㳬","㳭","㳮","㳯","㳰","㳱","㳲","㳳","㳴","㳵","㳶","㳷","㳸","㳹","㳺",
    "㳻","㳼","㳽","㳾","㳿","㶀","㶁","㶂","㶃","㶄","㶅","㶆","㶇","㶈","㶉","㶊","㶋","㶌","㶍","㶎","㶏","㶐","㶑",
    "㶒","㶓","㶔","㶕","㶖","㶗","㶘","㶙","㶚","㶛","㶜","㶝","㶞","㶟","㶠","㶡","㶢","㶣","㶤","㶥","㶦","㶧","㶨",
    "㶩","㶪","㶫","㶬","㶭","㶮","㶯","㶰","㶱","㶲","㶳","㶴","㶵","㶶","㶷","㶸","㶹","㶺","㶻","㶼","㶽","㶾","㶿",
    "㷀","㷁","㷂","㷃","㷄","㷅","㷆","㷇","㷈","㷉","㷊","㷋","㷌","㷍","㷎","㷏","㷐","㷑","㷒","㷓","㷔","㷕","㷖",
    "㷗","㷘","㷙","㷚","㷛","㷜","㷝","㷞","㷟","㷠","㷡","㷢","㷣","㷤","㷥","㷦","㷧","㷨","㷩","㷪","㷫","㷬","㷭",
    "㷮","㷯","㷰","㷱","㷲","㷳","㷴","㷵","㷶","㷷","㷸","㷹","㷺","㷻","㷼","㷽","㷾","㷿","㺀","㺁","㺂","㺃","㺄",
    "㺅","㺆","㺇","㺈","㺉","㺊","㺋","㺌","㺍","㺎","㺏","㺐","㺑","㺒","㺓","㺔","㺕","㺖","㺗","㺘","㺙","㺚","㺛",
    "㺜","㺝","㺞","㺟","㺠","㺡","㺢","㺣","㺤","㺥","㺦","㺧","㺨","㺩","㺪","㺫","㺬","㺭","㺮","㺯","㺰","㺱","㺲",
    "㺳","㺴","㺵","㺶","㺷","㺸","㺹","㺺","㺻","㺼","㺽","㺾","㺿","㻀","㻁","㻂","㻃","㻄","㻅","㻆","㻇","㻈","㻉",
    "㻊","㻋","㻌","㻍","㻎","㻏","㻐","㻑","㻒","㻓","㻔","㻕","㻖","㻗","㻘","㻙","㻚","㻛","㻜","㻝","㻞","㻟","㻠",
    "㻡","㻢","㻣","㻤","㻥","㻦","㻧","㻨","㻩","㻪","㻫","㻬","㻭","㻮","㻯","㻰","㻱","㻲","㻳","㻴","㻵","㻶","㻷",
    "㻸","㻹","㻺","㻻","㻼","㻽","㻾","㻿","㾀","㾁","㾂","㾃","㾄","㾅","㾆","㾇","㾈","㾉","㾊","㾋","㾌","㾍","㾎",
    "㾏","㾐","㾑","㾒","㾓","㾔","㾕","㾖","㾗","㾘","㾙","㾚","㾛","㾜","㾝","㾞","㾟","㾠","㾡","㾢","㾣","㾤","㾥",
    "㾦","㾧","㾨","㾩","㾪","㾫","㾬","㾭","㾮","㾯","㾰","㾱","㾲","㾳","㾴","㾵","㾶","㾷","㾸","㾹","㾺","㾻","㾼",
    "㾽","㾾","㾿","㿀","㿁","㿂","㿃","㿄","㿅","㿆","㿇","㿈","㿉","㿊","㿋","㿌","㿍","㿎","㿏","㿐","㿑","㿒","㿓",
    "㿔","㿕","㿖","㿗","㿘","㿙","㿚","㿛","㿜","㿝","㿞","㿟","㿠","㿡","㿢","㿣","㿤","㿥","㿦","㿧","㿨","㿩","㿪",
    "㿫","㿬","㿭","㿮","㿯","㿰","㿱","㿲","㿳","㿴","㿵","㿶","㿷","㿸","㿹","㿺","㿻","㿼","㿽","㿾","㿿","䂀","䂁",
    "䂂","䂃","䂄","䂅","䂆","䂇","䂈","䂉","䂊","䂋","䂌","䂍","䂎","䂏","䂐","䂑","䂒","䂓","䂔","䂕","䂖","䂗","䂘",
    "䂙","䂚","䂛","䂜","䂝","䂞","䂟","䂠","䂡","䂢","䂣","䂤","䂥","䂦","䂧","䂨","䂩","䂪","䂫","䂬","䂭","䂮","䂯",
    "䂰","䂱","䂲","䂳","䂴","䂵","䂶","䂷","䂸","䂹","䂺","䂻","䂼","䂽","䂾","䂿","䃀","䃁","䃂","䃃","䃄","䃅","䃆",
    "䃇","䃈","䃉","䃊","䃋","䃌","䃍","䃎","䃏","䃐","䃑","䃒","䃓","䃔","䃕","䃖","䃗","䃘","䃙","䃚","䃛","䃜","䃝",
    "䃞","䃟","䃠","䃡","䃢","䃣","䃤","䃥","䃦","䃧","䃨","䃩","䃪","䃫","䃬","䃭","䃮","䃯","䃰","䃱","䃲","䃳","䃴",
    "䃵","䃶","䃷","䃸","䃹","䃺","䃻","䃼","䃽","䃾","䃿","䆀","䆁","䆂","䆃","䆄","䆅","䆆","䆇","䆈","䆉","䆊","䆋",
    "䆌","䆍","䆎","䆏","䆐","䆑","䆒","䆓","䆔","䆕","䆖","䆗","䆘","䆙","䆚","䆛","䆜","䆝","䆞","䆟","䆠","䆡","䆢",
    "䆣","䆤","䆥","䆦","䆧","䆨","䆩","䆪","䆫","䆬","䆭","䆮","䆯","䆰","䆱","䆲","䆳","䆴","䆵","䆶","䆷","䆸","䆹",
    "䆺","䆻","䆼","䆽","䆾","䆿","䇀","䇁","䇂","䇃","䇄","䇅","䇆","䇇","䇈","䇉","䇊","䇋","䇌","䇍","䇎","䇏","䇐",
    "䇑","䇒","䇓","䇔","䇕","䇖","䇗","䇘","䇙","䇚","䇛","䇜","䇝","䇞","䇟","䇠","䇡","䇢","䇣","䇤","䇥","䇦","䇧",
    "䇨","䇩","䇪","䇫","䇬","䇭","䇮","䇯","䇰","䇱","䇲","䇳","䇴","䇵","䇶","䇷","䇸","䇹","䇺","䇻","䇼","䇽","䇾",
    "䇿","䊀","䊁","䊂","䊃","䊄","䊅","䊆","䊇","䊈","䊉","䊊","䊋","䊌","䊍","䊎","䊏","䊐","䊑","䊒","䊓","䊔","䊕",
    "䊖","䊗","䊘","䊙","䊚","䊛","䊜","䊝","䊞","䊟","䊠","䊡","䊢","䊣","䊤","䊥","䊦","䊧","䊨","䊩","䊪","䊫","䊬",
    "䊭","䊮","䊯","䊰","䊱","䊲","䊳","䊴","䊵","䊶","䊷","䊸","䊹","䊺","䊻","䊼","䊽","䊾","䊿","䋀","䋁","䋂","䋃",
    "䋄","䋅","䋆","䋇","䋈","䋉","䋊","䋋","䋌","䋍","䋎","䋏","䋐","䋑","䋒","䋓","䋔","䋕","䋖","䋗","䋘","䋙","䋚",
    "䋛","䋜","䋝","䋞","䋟","䋠","䋡","䋢","䋣","䋤","䋥","䋦","䋧","䋨","䋩","䋪","䋫","䋬","䋭","䋮","䋯","䋰","䋱",
    "䋲","䋳","䋴","䋵","䋶","䋷","䋸","䋹","䋺","䋻","䋼","䋽","䋾","䋿","䎀","䎁","䎂","䎃","䎄","䎅","䎆","䎇","䎈",
    "䎉","䎊","䎋","䎌","䎍","䎎","䎏","䎐","䎑","䎒","䎓","䎔","䎕","䎖","䎗","䎘","䎙","䎚","䎛","䎜","䎝","䎞","䎟",
    "䎠","䎡","䎢","䎣","䎤","䎥","䎦","䎧","䎨","䎩","䎪","䎫","䎬","䎭","䎮","䎯","䎰","䎱","䎲","䎳","䎴","䎵","䎶",
    "䎷","䎸","䎹","䎺","䎻","䎼","䎽","䎾","䎿","䏀","䏁","䏂","䏃","䏄","䏅","䏆","䏇","䏈","䏉","䏊","䏋","䏌","䏍",
    "䏎","䏏","䏐","䏑","䏒","䏓","䏔","䏕","䏖","䏗","䏘","䏙","䏚","䏛","䏜","䏝","䏞","䏟","䏠","䏡","䏢","䏣","䏤",
    "䏥","䏦","䏧","䏨","䏩","䏪","䏫","䏬","䏭","䏮","䏯","䏰","䏱","䏲","䏳","䏴","䏵","䏶","䏷","䏸","䏹","䏺","䏻",
    "䏼","䏽","䏾","䏿","䒀","䒁","䒂","䒃","䒄","䒅","䒆","䒇","䒈","䒉","䒊","䒋","䒌","䒍","䒎","䒏","䒐","䒑","䒒",
    "䒓","䒔","䒕","䒖","䒗","䒘","䒙","䒚","䒛","䒜","䒝","䒞","䒟","䒠","䒡","䒢","䒣","䒤","䒥","䒦","䒧","䒨","䒩",
    "䒪","䒫","䒬","䒭","䒮","䒯","䒰","䒱","䒲","䒳","䒴","䒵","䒶","䒷","䒸","䒹","䒺","䒻","䒼","䒽","䒾","䒿","䓀",
    "䓁","䓂","䓃","䓄","䓅","䓆","䓇","䓈","䓉","䓊","䓋","䓌","䓍","䓎","䓏","䓐","䓑","䓒","䓓","䓔","䓕","䓖","䓗",
    "䓘","䓙","䓚","䓛","䓜","䓝","䓞","䓟","䓠","䓡","䓢","䓣","䓤","䓥","䓦","䓧","䓨","䓩","䓪","䓫","䓬","䓭","䓮",
    "䓯","䓰","䓱","䓲","䓳","䓴","䓵","䓶","䓷","䓸","䓹","䓺","䓻","䓼","䓽","䓾","䓿","䖀","䖁","䖂","䖃","䖄","䖅",
    "䖆","䖇","䖈","䖉","䖊","䖋","䖌","䖍","䖎","䖏","䖐","䖑","䖒","䖓","䖔","䖕","䖖","䖗","䖘","䖙","䖚","䖛","䖜",
    "䖝","䖞","䖟","䖠","䖡","䖢","䖣","䖤","䖥","䖦","䖧","䖨","䖩","䖪","䖫","䖬","䖭","䖮","䖯","䖰","䖱","䖲","䖳",
    "䖴","䖵","䖶","䖷","䖸","䖹","䖺","䖻","䖼","䖽","䖾","䖿","䗀","䗁","䗂","䗃","䗄","䗅","䗆","䗇","䗈","䗉","䗊",
    "䗋","䗌","䗍","䗎","䗏","䗐","䗑","䗒","䗓","䗔","䗕","䗖","䗗","䗘","䗙","䗚","䗛","䗜","䗝","䗞","䗟","䗠","䗡",
    "䗢","䗣","䗤","䗥","䗦","䗧","䗨","䗩","䗪","䗫","䗬","䗭","䗮","䗯","䗰","䗱","䗲","䗳","䗴","䗵","䗶","䗷","䗸",
    "䗹","䗺","䗻","䗼","䗽","䗾","䗿","䚀","䚁","䚂","䚃","䚄","䚅","䚆","䚇","䚈","䚉","䚊","䚋","䚌","䚍","䚎","䚏",
    "䚐","䚑","䚒","䚓","䚔","䚕","䚖","䚗","䚘","䚙","䚚","䚛","䚜","䚝","䚞","䚟","䚠","䚡","䚢","䚣","䚤","䚥","䚦",
    "䚧","䚨","䚩","䚪","䚫","䚬","䚭","䚮","䚯","䚰","䚱","䚲","䚳","䚴","䚵","䚶","䚷","䚸","䚹","䚺","䚻","䚼","䚽",
    "䚾","䚿","䛀","䛁","䛂","䛃","䛄","䛅","䛆","䛇","䛈","䛉","䛊","䛋","䛌","䛍","䛎","䛏","䛐","䛑","䛒","䛓","䛔",
    "䛕","䛖","䛗","䛘","䛙","䛚","䛛","䛜","䛝","䛞","䛟","䛠","䛡","䛢","䛣","䛤","䛥","䛦","䛧","䛨","䛩","䛪","䛫",
    "䛬","䛭","䛮","䛯","䛰","䛱","䛲","䛳","䛴","䛵","䛶","䛷","䛸","䛹","䛺","䛻","䛼","䛽","䛾","䛿","䞀","䞁","䞂",
    "䞃","䞄","䞅","䞆","䞇","䞈","䞉","䞊","䞋","䞌","䞍","䞎","䞏","䞐","䞑","䞒","䞓","䞔","䞕","䞖","䞗","䞘","䞙",
    "䞚","䞛","䞜","䞝","䞞","䞟","䞠","䞡","䞢","䞣","䞤","䞥","䞦","䞧","䞨","䞩","䞪","䞫","䞬","䞭","䞮","䞯","䞰",
    "䞱","䞲","䞳","䞴","䞵","䞶","䞷","䞸","䞹","䞺","䞻","䞼","䞽","䞾","䞿","䟀","䟁","䟂","䟃","䟄","䟅","䟆","䟇",
    "䟈","䟉","䟊","䟋","䟌","䟍","䟎","䟏","䟐","䟑","䟒","䟓","䟔","䟕","䟖","䟗","䟘","䟙","䟚","䟛","䟜","䟝","䟞",
    "䟟","䟠","䟡","䟢","䟣","䟤","䟥","䟦","䟧","䟨","䟩","䟪","䟫","䟬","䟭","䟮","䟯","䟰","䟱","䟲","䟳","䟴","䟵",
    "䟶","䟷","䟸","䟹","䟺","䟻","䟼","䟽","䟾","䟿","䢀","䢁","䢂","䢃","䢄","䢅","䢆","䢇","䢈","䢉","䢊","䢋","䢌",
    "䢍","䢎","䢏","䢐","䢑","䢒","䢓","䢔","䢕","䢖","䢗","䢘","䢙","䢚","䢛","䢜","䢝","䢞","䢟","䢠","䢡","䢢","䢣",
    "䢤","䢥","䢦","䢧","䢨","䢩","䢪","䢫","䢬","䢭","䢮","䢯","䢰","䢱","䢲","䢳","䢴","䢵","䢶","䢷","䢸","䢹","䢺",
    "䢻","䢼","䢽","䢾","䢿","䣀","䣁","䣂","䣃","䣄","䣅","䣆","䣇","䣈","䣉","䣊","䣋","䣌","䣍","䣎","䣏","䣐","䣑",
    "䣒","䣓","䣔","䣕","䣖","䣗","䣘","䣙","䣚","䣛","䣜","䣝","䣞","䣟","䣠","䣡","䣢","䣣","䣤","䣥","䣦","䣧","䣨",
    "䣩","䣪","䣫","䣬","䣭","䣮","䣯","䣰","䣱","䣲","䣳","䣴","䣵","䣶","䣷","䣸","䣹","䣺","䣻","䣼","䣽","䣾","䣿",
    "䦀","䦁","䦂","䦃","䦄","䦅","䦆","䦇","䦈","䦉","䦊","䦋","䦌","䦍","䦎","䦏","䦐","䦑","䦒","䦓","䦔","䦕","䦖",
    "䦗","䦘","䦙","䦚","䦛","䦜","䦝","䦞","䦟","䦠","䦡","䦢","䦣","䦤","䦥","䦦","䦧","䦨","䦩","䦪","䦫","䦬","䦭",
    "䦮","䦯","䦰","䦱","䦲","䦳","䦴","䦵","䦶","䦷","䦸","䦹","䦺","䦻","䦼","䦽","䦾","䦿","䧀","䧁","䧂","䧃","䧄",
    "䧅","䧆","䧇","䧈","䧉","䧊","䧋","䧌","䧍","䧎","䧏","䧐","䧑","䧒","䧓","䧔","䧕","䧖","䧗","䧘","䧙","䧚","䧛",
    "䧜","䧝","䧞","䧟","䧠","䧡","䧢","䧣","䧤","䧥","䧦","䧧","䧨","䧩","䧪","䧫","䧬","䧭","䧮","䧯","䧰","䧱","䧲",
    "䧳","䧴","䧵","䧶","䧷","䧸","䧹","䧺","䧻","䧼","䧽","䧾","䧿","䪀","䪁","䪂","䪃","䪄","䪅","䪆","䪇","䪈","䪉",
    "䪊","䪋","䪌","䪍","䪎","䪏","䪐","䪑","䪒","䪓","䪔","䪕","䪖","䪗","䪘","䪙","䪚","䪛","䪜","䪝","䪞","䪟","䪠",
    "䪡","䪢","䪣","䪤","䪥","䪦","䪧","䪨","䪩","䪪","䪫","䪬","䪭","䪮","䪯","䪰","䪱","䪲","䪳","䪴","䪵","䪶","䪷",
    "䪸","䪹","䪺","䪻","䪼","䪽","䪾","䪿","䫀","䫁","䫂","䫃","䫄","䫅","䫆","䫇","䫈","䫉","䫊","䫋","䫌","䫍","䫎",
    "䫏","䫐","䫑","䫒","䫓","䫔","䫕","䫖","䫗","䫘","䫙","䫚","䫛","䫜","䫝","䫞","䫟","䫠","䫡","䫢","䫣","䫤","䫥",
    "䫦","䫧","䫨","䫩","䫪","䫫","䫬","䫭","䫮","䫯","䫰","䫱","䫲","䫳","䫴","䫵","䫶","䫷","䫸","䫹","䫺","䫻","䫼",
    "䫽","䫾","䫿","䮀","䮁","䮂","䮃","䮄","䮅","䮆","䮇","䮈","䮉","䮊","䮋","䮌","䮍","䮎","䮏","䮐","䮑","䮒","䮓",
    "䮔","䮕","䮖","䮗","䮘","䮙","䮚","䮛","䮜","䮝","䮞","䮟","䮠","䮡","䮢","䮣","䮤","䮥","䮦","䮧","䮨","䮩","䮪",
    "䮫","䮬","䮭","䮮","䮯","䮰","䮱","䮲","䮳","䮴","䮵","䮶","䮷","䮸","䮹","䮺","䮻","䮼","䮽","䮾","䮿","䯀","䯁",
    "䯂","䯃","䯄","䯅","䯆","䯇","䯈","䯉","䯊","䯋","䯌","䯍","䯎","䯏","䯐","䯑","䯒","䯓","䯔","䯕","䯖","䯗","䯘",
    "䯙","䯚","䯛","䯜","䯝","䯞","䯟","䯠","䯡","䯢","䯣","䯤","䯥","䯦","䯧","䯨","䯩","䯪","䯫","䯬","䯭","䯮","䯯",
    "䯰","䯱","䯲","䯳","䯴","䯵","䯶","䯷","䯸","䯹","䯺","䯻","䯼","䯽","䯾","䯿","䲀","䲁","䲂","䲃","䲄","䲅","䲆",
    "䲇","䲈","䲉","䲊","䲋","䲌","䲍","䲎","䲏","䲐","䲑","䲒","䲓","䲔","䲕","䲖","䲗","䲘","䲙","䲚","䲛","䲜","䲝",
    "䲞","䲟","䲠","䲡","䲢","䲣","䲤","䲥","䲦","䲧","䲨","䲩","䲪","䲫","䲬","䲭","䲮","䲯","䲰","䲱","䲲","䲳","䲴",
    "䲵","䲶","䲷","䲸","䲹","䲺","䲻","䲼","䲽","䲾","䲿","䳀","䳁","䳂","䳃","䳄","䳅","䳆","䳇","䳈","䳉","䳊","䳋",
    "䳌","䳍","䳎","䳏","䳐","䳑","䳒","䳓","䳔","䳕","䳖","䳗","䳘","䳙","䳚","䳛","䳜","䳝","䳞","䳟","䳠","䳡","䳢",
    "䳣","䳤","䳥","䳦","䳧","䳨","䳩","䳪","䳫","䳬","䳭","䳮","䳯","䳰","䳱","䳲","䳳","䳴","䳵","䳶","䳷","䳸","䳹",
    "䳺","䳻","䳼","䳽","䳾","䳿","䶀","䶁","䶂","䶃","䶄","䶅","䶆","䶇","䶈","䶉","䶊","䶋","䶌","䶍","䶎","䶏","䶐",
    "䶑","䶒","䶓","䶔","䶕","䶖","䶗","䶘","䶙","䶚","䶛","䶜","䶝","䶞","䶟","䶠","䶡","䶢","䶣","䶤","䶥","䶦","䶧",
    "䶨","䶩","䶪","䶫","䶬","䶭","䶮","䶯","䶰","䶱","䶲","䶳","䶴","䶵","䶶","䶷","䶸","䶹","䶺","䶻","䶼","䶽","䶾",
    "䶿","䷀","䷁","䷂","䷃","䷄","䷅","䷆","䷇","䷈","䷉","䷊","䷋","䷌","䷍","䷎","䷏","䷐","䷑","䷒","䷓","䷔","䷕",
    "䷖","䷗","䷘","䷙","䷚","䷛","䷜","䷝","䷞","䷟","䷠","䷡","䷢","䷣","䷤","䷥","䷦","䷧","䷨","䷩","䷪","䷫","䷬",
    "䷭","䷮","䷯","䷰","䷱","䷲","䷳","䷴","䷵","䷶","䷷","䷸","䷹","䷺","䷻","䷼","䷽","䷾","䷿","亀","亁","亂","亃",
    "亄","亅","了","亇","予","争","亊","事","二","亍","于","亏","亐","云","互","亓","五","井","亖","亗","亘","亙","亚",
    "些","亜","亝","亞","亟","亠","亡","亢","亣","交","亥","亦","产","亨","亩","亪","享","京","亭","亮","亯","亰","亱",
    "亲","亳","亴","亵","亶","亷","亸","亹","人","亻","亼","亽","亾","亿","什","仁","仂","仃","仄","仅","仆","仇","仈",
    "仉","今","介","仌","仍","从","仏","仐","仑","仒","仓","仔","仕","他","仗","付","仙","仚","仛","仜","仝","仞","仟",
    "仠","仡","仢","代","令","以","仦","仧","仨","仩","仪","仫","们","仭","仮","仯","仰","仱","仲","仳","仴","仵","件",
    "价","仸","仹","仺","任","仼","份","仾","仿","侀","侁","侂","侃","侄","侅","來","侇","侈","侉","侊","例","侌","侍",
    "侎","侏","侐","侑","侒","侓","侔","侕","侖","侗","侘","侙","侚","供","侜","依","侞","侟","侠","価","侢","侣","侤",
    "侥","侦","侧","侨","侩","侪","侫","侬","侭","侮","侯","侰","侱","侲","侳","侴","侵","侶","侷","侸","侹","侺","侻",
    "侼","侽","侾","便","俀","俁","係","促","俄","俅","俆","俇","俈","俉","俊","俋","俌","俍","俎","俏","俐","俑","俒",
    "俓","俔","俕","俖","俗","俘","俙","俚","俛","俜","保","俞","俟","俠","信","俢","俣","俤","俥","俦","俧","俨","俩",
    "俪","俫","俬","俭","修","俯","俰","俱","俲","俳","俴","俵","俶","俷","俸","俹","俺","俻","俼","俽","俾","俿","傀",
    "傁","傂","傃","傄","傅","傆","傇","傈","傉","傊","傋","傌","傍","傎","傏","傐","傑","傒","傓","傔","傕","傖","傗",
    "傘","備","傚","傛","傜","傝","傞","傟","傠","傡","傢","傣","傤","傥","傦","傧","储","傩","傪","傫","催","傭","傮",
    "傯","傰","傱","傲","傳","傴","債","傶","傷","傸","傹","傺","傻","傼","傽","傾","傿","僀","僁","僂","僃","僄","僅",
    "僆","僇","僈","僉","僊","僋","僌","働","僎","像","僐","僑","僒","僓","僔","僕","僖","僗","僘","僙","僚","僛","僜",
    "僝","僞","僟","僠","僡","僢","僣","僤","僥","僦","僧","僨","僩","僪","僫","僬","僭","僮","僯","僰","僱","僲","僳",
    "僴","僵","僶","僷","僸","價","僺","僻","僼","僽","僾","僿","冀","冁","冂","冃","冄","内","円","冇","冈","冉","冊",
    "冋","册","再","冎","冏","冐","冑","冒","冓","冔","冕","冖","冗","冘","写","冚","军","农","冝","冞","冟","冠","冡",
    "冢","冣","冤","冥","冦","冧","冨","冩","冪","冫","冬","冭","冮","冯","冰","冱","冲","决","冴","况","冶","冷","冸",
    "冹","冺","冻","冼","冽","冾","冿","净","凁","凂","凃","凄","凅","准","凇","凈","凉","凊","凋","凌","凍","凎","减",
    "凐","凑","凒","凓","凔","凕","凖","凗","凘","凙","凚","凛","凜","凝","凞","凟","几","凡","凢","凣","凤","凥","処",
    "凧","凨","凩","凪","凫","凬","凭","凮","凯","凰","凱","凲","凳","凴","凵","凶","凷","凸","凹","出","击","凼","函",
    "凾","凿","劀","劁","劂","劃","劄","劅","劆","劇","劈","劉","劊","劋","劌","劍","劎","劏","劐","劑","劒","劓","劔",
    "劕","劖","劗","劘","劙","劚","力","劜","劝","办","功","加","务","劢","劣","劤","劥","劦","劧","动","助","努","劫",
    "劬","劭","劮","劯","劰","励","劲","劳","労","劵","劶","劷","劸","効","劺","劻","劼","劽","劾","势","勀","勁","勂",
    "勃","勄","勅","勆","勇","勈","勉","勊","勋","勌","勍","勎","勏","勐","勑","勒","勓","勔","動","勖","勗","勘","務",
    "勚","勛","勜","勝","勞","募","勠","勡","勢","勣","勤","勥","勦","勧","勨","勩","勪","勫","勬","勭","勮","勯","勰",
    "勱","勲","勳","勴","勵","勶","勷","勸","勹","勺","勻","勼","勽","勾","勿","厀","厁","厂","厃","厄","厅","历","厇",
    "厈","厉","厊","压","厌","厍","厎","厏","厐","厑","厒","厓","厔","厕","厖","厗","厘","厙","厚","厛","厜","厝","厞",
    "原","厠","厡","厢","厣","厤","厥","厦","厧","厨","厩","厪","厫","厬","厭","厮","厯","厰","厱","厲","厳","厴","厵",
    "厶","厷","厸","厹","厺","去","厼","厽","厾","县","叀","叁","参","參","叄","叅","叆","叇","又","叉","及","友","双",
    "反","収","叏","叐","发","叒","叓","叔","叕","取","受","变","叙","叚","叛","叜","叝","叞","叟","叠","叡","叢","口",
    "古","句","另","叧","叨","叩","只","叫","召","叭","叮","可","台","叱","史","右","叴","叵","叶","号","司","叹","叺",
    "叻","叼","叽","叾","叿","咀","咁","咂","咃","咄","咅","咆","咇","咈","咉","咊","咋","和","咍","咎","咏","咐","咑",
    "咒","咓","咔","咕","咖","咗","咘","咙","咚","咛","咜","咝","咞","咟","咠","咡","咢","咣","咤","咥","咦","咧","咨",
    "咩","咪","咫","咬","咭","咮","咯","咰","咱","咲","咳","咴","咵","咶","咷","咸","咹","咺","咻","咼","咽","咾","咿",
    "哀","品","哂","哃","哄","哅","哆","哇","哈","哉","哊","哋","哌","响","哎","哏","哐","哑","哒","哓","哔","哕","哖",
    "哗","哘","哙","哚","哛","哜","哝","哞","哟","哠","員","哢","哣","哤","哥","哦","哧","哨","哩","哪","哫","哬","哭",
    "哮","哯","哰","哱","哲","哳","哴","哵","哶","哷","哸","哹","哺","哻","哼","哽","哾","哿","喀","喁","喂","喃","善",
    "喅","喆","喇","喈","喉","喊","喋","喌","喍","喎","喏","喐","喑","喒","喓","喔","喕","喖","喗","喘","喙","喚","喛",
    "喜","喝","喞","喟","喠","喡","喢","喣","喤","喥","喦","喧","喨","喩","喪","喫","喬","喭","單","喯","喰","喱","喲",
    "喳","喴","喵","営","喷","喸","喹","喺","喻","喼","喽","喾","喿","嗀","嗁","嗂","嗃","嗄","嗅","嗆","嗇","嗈","嗉",
    "嗊","嗋","嗌","嗍","嗎","嗏","嗐","嗑","嗒","嗓","嗔","嗕","嗖","嗗","嗘","嗙","嗚","嗛","嗜","嗝","嗞","嗟","嗠",
    "嗡","嗢","嗣","嗤","嗥","嗦","嗧","嗨","嗩","嗪","嗫","嗬","嗭","嗮","嗯","嗰","嗱","嗲","嗳","嗴","嗵","嗶","嗷",
    "嗸","嗹","嗺","嗻","嗼","嗽","嗾","嗿","嚀","嚁","嚂","嚃","嚄","嚅","嚆","嚇","嚈","嚉","嚊","嚋","嚌","嚍","嚎",
    "嚏","嚐","嚑","嚒","嚓","嚔","嚕","嚖","嚗","嚘","嚙","嚚","嚛","嚜","嚝","嚞","嚟","嚠","嚡","嚢","嚣","嚤","嚥",
    "嚦","嚧","嚨","嚩","嚪","嚫","嚬","嚭","嚮","嚯","嚰","嚱","嚲","嚳","嚴","嚵","嚶","嚷","嚸","嚹","嚺","嚻","嚼",
    "嚽","嚾","嚿","囀","囁","囂","囃","囄","囅","囆","囇","囈","囉","囊","囋","囌","囍","囎","囏","囐","囑","囒","囓",
    "囔","囕","囖","囗","囘","囙","囚","四","囜","囝","回","囟","因","囡","团","団","囤","囥","囦","囧","囨","囩","囪",
    "囫","囬","园","囮","囯","困","囱","囲","図","围","囵","囶","囷","囸","囹","固","囻","囼","国","图","囿","垀","垁",
    "垂","垃","垄","垅","垆","垇","垈","垉","垊","型","垌","垍","垎","垏","垐","垑","垒","垓","垔","垕","垖","垗","垘",
    "垙","垚","垛","垜","垝","垞","垟","垠","垡","垢","垣","垤","垥","垦","垧","垨","垩","垪","垫","垬","垭","垮","垯",
    "垰","垱","垲","垳","垴","垵","垶","垷","垸","垹","垺","垻","垼","垽","垾","垿","埀","埁","埂","埃","埄","埅","埆",
    "埇","埈","埉","埊","埋","埌","埍","城","埏","埐","埑","埒","埓","埔","埕","埖","埗","埘","埙","埚","埛","埜","埝",
    "埞","域","埠","埡","埢","埣","埤","埥","埦","埧","埨","埩","埪","埫","埬","埭","埮","埯","埰","埱","埲","埳","埴",
    "埵","埶","執","埸","培","基","埻","埼","埽","埾","埿","墀","墁","墂","境","墄","墅","墆","墇","墈","墉","墊","墋",
    "墌","墍","墎","墏","墐","墑","墒","墓","墔","墕","墖","増","墘","墙","墚","墛","墜","墝","增","墟","墠","墡","墢",
    "墣","墤","墥","墦","墧","墨","墩","墪","墫","墬","墭","墮","墯","墰","墱","墲","墳","墴","墵","墶","墷","墸","墹",
    "墺","墻","墼","墽","墾","墿","壀","壁","壂","壃","壄","壅","壆","壇","壈","壉","壊","壋","壌","壍","壎","壏","壐",
    "壑","壒","壓","壔","壕","壖","壗","壘","壙","壚","壛","壜","壝","壞","壟","壠","壡","壢","壣","壤","壥","壦","壧",
    "壨","壩","壪","士","壬","壭","壮","壯","声","壱","売","壳","壴","壵","壶","壷","壸","壹","壺","壻","壼","壽","壾",
    "壿","妀","妁","如","妃","妄","妅","妆","妇","妈","妉","妊","妋","妌","妍","妎","妏","妐","妑","妒","妓","妔","妕",
    "妖","妗","妘","妙","妚","妛","妜","妝","妞","妟","妠","妡","妢","妣","妤","妥","妦","妧","妨","妩","妪","妫","妬",
    "妭","妮","妯","妰","妱","妲","妳","妴","妵","妶","妷","妸","妹","妺","妻","妼","妽","妾","妿","姀","姁","姂","姃",
    "姄","姅","姆","姇","姈","姉","姊","始","姌","姍","姎","姏","姐","姑","姒","姓","委","姕","姖","姗","姘","姙","姚",
    "姛","姜","姝","姞","姟","姠","姡","姢","姣","姤","姥","姦","姧","姨","姩","姪","姫","姬","姭","姮","姯","姰","姱",
    "姲","姳","姴","姵","姶","姷","姸","姹","姺","姻","姼","姽","姾","姿","媀","媁","媂","媃","媄","媅","媆","媇","媈",
    "媉","媊","媋","媌","媍","媎","媏","媐","媑","媒","媓","媔","媕","媖","媗","媘","媙","媚","媛","媜","媝","媞","媟",
    "媠","媡","媢","媣","媤","媥","媦","媧","媨","媩","媪","媫","媬","媭","媮","媯","媰","媱","媲","媳","媴","媵","媶",
    "媷","媸","媹","媺","媻","媼","媽","媾","媿","嫀","嫁","嫂","嫃","嫄","嫅","嫆","嫇","嫈","嫉","嫊","嫋","嫌","嫍",
    "嫎","嫏","嫐","嫑","嫒","嫓","嫔","嫕","嫖","嫗","嫘","嫙","嫚","嫛","嫜","嫝","嫞","嫟","嫠","嫡","嫢","嫣","嫤",
    "嫥","嫦","嫧","嫨","嫩","嫪","嫫","嫬","嫭","嫮","嫯","嫰","嫱","嫲","嫳","嫴","嫵","嫶","嫷","嫸","嫹","嫺","嫻",
    "嫼","嫽","嫾","嫿","宀","宁","宂","它","宄","宅","宆","宇","守","安","宊","宋","完","宍","宎","宏","宐","宑","宒",
    "宓","宔","宕","宖","宗","官","宙","定","宛","宜","宝","实","実","宠","审","客","宣","室","宥","宦","宧","宨","宩",
    "宪","宫","宬","宭","宮","宯","宰","宱","宲","害","宴","宵","家","宷","宸","容","宺","宻","宼","宽","宾","宿","寀",
    "寁","寂","寃","寄","寅","密","寇","寈","寉","寊","寋","富","寍","寎","寏","寐","寑","寒","寓","寔","寕","寖","寗",
    "寘","寙","寚","寛","寜","寝","寞","察","寠","寡","寢","寣","寤","寥","實","寧","寨","審","寪","寫","寬","寭","寮",
    "寯","寰","寱","寲","寳","寴","寵","寶","寷","寸","对","寺","寻","导","寽","対","寿","岀","岁","岂","岃","岄","岅",
    "岆","岇","岈","岉","岊","岋","岌","岍","岎","岏","岐","岑","岒","岓","岔","岕","岖","岗","岘","岙","岚","岛","岜",
    "岝","岞","岟","岠","岡","岢","岣","岤","岥","岦","岧","岨","岩","岪","岫","岬","岭","岮","岯","岰","岱","岲","岳",
    "岴","岵","岶","岷","岸","岹","岺","岻","岼","岽","岾","岿","峀","峁","峂","峃","峄","峅","峆","峇","峈","峉","峊",
    "峋","峌","峍","峎","峏","峐","峑","峒","峓","峔","峕","峖","峗","峘","峙","峚","峛","峜","峝","峞","峟","峠","峡",
    "峢","峣","峤","峥","峦","峧","峨","峩","峪","峫","峬","峭","峮","峯","峰","峱","峲","峳","峴","峵","島","峷","峸",
    "峹","峺","峻","峼","峽","峾","峿","嶀","嶁","嶂","嶃","嶄","嶅","嶆","嶇","嶈","嶉","嶊","嶋","嶌","嶍","嶎","嶏",
    "嶐","嶑","嶒","嶓","嶔","嶕","嶖","嶗","嶘","嶙","嶚","嶛","嶜","嶝","嶞","嶟","嶠","嶡","嶢","嶣","嶤","嶥","嶦",
    "嶧","嶨","嶩","嶪","嶫","嶬","嶭","嶮","嶯","嶰","嶱","嶲","嶳","嶴","嶵","嶶","嶷","嶸","嶹","嶺","嶻","嶼","嶽",
    "嶾","嶿","巀","巁","巂","巃","巄","巅","巆","巇","巈","巉","巊","巋","巌","巍","巎","巏","巐","巑","巒","巓","巔",
    "巕","巖","巗","巘","巙","巚","巛","巜","川","州","巟","巠","巡","巢","巣","巤","工","左","巧","巨","巩","巪","巫",
    "巬","巭","差","巯","巰","己","已","巳","巴","巵","巶","巷","巸","巹","巺","巻","巼","巽","巾","巿","庀","庁","庂",
    "広","庄","庅","庆","庇","庈","庉","床","庋","庌","庍","庎","序","庐","庑","庒","库","应","底","庖","店","庘","庙",
    "庚","庛","府","庝","庞","废","庠","庡","庢","庣","庤","庥","度","座","庨","庩","庪","庫","庬","庭","庮","庯","庰",
    "庱","庲","庳","庴","庵","庶","康","庸","庹","庺","庻","庼","庽","庾","庿","廀","廁","廂","廃","廄","廅","廆","廇",
    "廈","廉","廊","廋","廌","廍","廎","廏","廐","廑","廒","廓","廔","廕","廖","廗","廘","廙","廚","廛","廜","廝","廞",
    "廟","廠","廡","廢","廣","廤","廥","廦","廧","廨","廩","廪","廫","廬","廭","廮","廯","廰","廱","廲","廳","廴","廵",
    "延","廷","廸","廹","建","廻","廼","廽","廾","廿","往","征","徂","徃","径","待","徆","徇","很","徉","徊","律","後",
    "徍","徎","徏","徐","徑","徒","従","徔","徕","徖","得","徘","徙","徚","徛","徜","徝","從","徟","徠","御","徢","徣",
    "徤","徥","徦","徧","徨","復","循","徫","徬","徭","微","徯","徰","徱","徲","徳","徴","徵","徶","德","徸","徹","徺",
    "徻","徼","徽","徾","徿","忀","忁","忂","心","忄","必","忆","忇","忈","忉","忊","忋","忌","忍","忎","忏","忐","忑",
    "忒","忓","忔","忕","忖","志","忘","忙","忚","忛","応","忝","忞","忟","忠","忡","忢","忣","忤","忥","忦","忧","忨",
    "忩","忪","快","忬","忭","忮","忯","忰","忱","忲","忳","忴","念","忶","忷","忸","忹","忺","忻","忼","忽","忾","忿",
    "悀","悁","悂","悃","悄","悅","悆","悇","悈","悉","悊","悋","悌","悍","悎","悏","悐","悑","悒","悓","悔","悕","悖",
    "悗","悘","悙","悚","悛","悜","悝","悞","悟","悠","悡","悢","患","悤","悥","悦","悧","您","悩","悪","悫","悬","悭",
    "悮","悯","悰","悱","悲","悳","悴","悵","悶","悷","悸","悹","悺","悻","悼","悽","悾","悿","惀","惁","惂","惃","惄",
    "情","惆","惇","惈","惉","惊","惋","惌","惍","惎","惏","惐","惑","惒","惓","惔","惕","惖","惗","惘","惙","惚","惛",
    "惜","惝","惞","惟","惠","惡","惢","惣","惤","惥","惦","惧","惨","惩","惪","惫","惬","惭","惮","惯","惰","惱","惲",
    "想","惴","惵","惶","惷","惸","惹","惺","惻","惼","惽","惾","惿","憀","憁","憂","憃","憄","憅","憆","憇","憈","憉",
    "憊","憋","憌","憍","憎","憏","憐","憑","憒","憓","憔","憕","憖","憗","憘","憙","憚","憛","憜","憝","憞","憟","憠",
    "憡","憢","憣","憤","憥","憦","憧","憨","憩","憪","憫","憬","憭","憮","憯","憰","憱","憲","憳","憴","憵","憶","憷",
    "憸","憹","憺","憻","憼","憽","憾","憿","懀","懁","懂","懃","懄","懅","懆","懇","懈","應","懊","懋","懌","懍","懎",
    "懏","懐","懑","懒","懓","懔","懕","懖","懗","懘","懙","懚","懛","懜","懝","懞","懟","懠","懡","懢","懣","懤","懥",
    "懦","懧","懨","懩","懪","懫","懬","懭","懮","懯","懰","懱","懲","懳","懴","懵","懶","懷","懸","懹","懺","懻","懼",
    "懽","懾","懿","技","抁","抂","抃","抄","抅","抆","抇","抈","抉","把","抋","抌","抍","抎","抏","抐","抑","抒","抓",
    "抔","投","抖","抗","折","抙","抚","抛","抜","抝","択","抟","抠","抡","抢","抣","护","报","抦","抧","抨","抩","抪",
    "披","抬","抭","抮","抯","抰","抱","抲","抳","抴","抵","抶","抷","抸","抹","抺","抻","押","抽","抾","抿","拀","拁",
    "拂","拃","拄","担","拆","拇","拈","拉","拊","拋","拌","拍","拎","拏","拐","拑","拒","拓","拔","拕","拖","拗","拘",
    "拙","拚","招","拜","拝","拞","拟","拠","拡","拢","拣","拤","拥","拦","拧","拨","择","拪","拫","括","拭","拮","拯",
    "拰","拱","拲","拳","拴","拵","拶","拷","拸","拹","拺","拻","拼","拽","拾","拿","掀","掁","掂","掃","掄","掅","掆",
    "掇","授","掉","掊","掋","掌","掍","掎","掏","掐","掑","排","掓","掔","掕","掖","掗","掘","掙","掚","掛","掜","掝",
    "掞","掟","掠","採","探","掣","掤","接","掦","控","推","掩","措","掫","掬","掭","掮","掯","掰","掱","掲","掳","掴",
    "掵","掶","掷","掸","掹","掺","掻","掼","掽","掾","掿","揀","揁","揂","揃","揄","揅","揆","揇","揈","揉","揊","揋",
    "揌","揍","揎","描","提","揑","插","揓","揔","揕","揖","揗","揘","揙","揚","換","揜","揝","揞","揟","揠","握","揢",
    "揣","揤","揥","揦","揧","揨","揩","揪","揫","揬","揭","揮","揯","揰","揱","揲","揳","援","揵","揶","揷","揸","揹",
    "揺","揻","揼","揽","揾","揿","撀","撁","撂","撃","撄","撅","撆","撇","撈","撉","撊","撋","撌","撍","撎","撏","撐",
    "撑","撒","撓","撔","撕","撖","撗","撘","撙","撚","撛","撜","撝","撞","撟","撠","撡","撢","撣","撤","撥","撦","撧",
    "撨","撩","撪","撫","撬","播","撮","撯","撰","撱","撲","撳","撴","撵","撶","撷","撸","撹","撺","撻","撼","撽","撾",
    "撿","擀","擁","擂","擃","擄","擅","擆","擇","擈","擉","擊","擋","擌","操","擎","擏","擐","擑","擒","擓","擔","擕",
    "擖","擗","擘","擙","據","擛","擜","擝","擞","擟","擠","擡","擢","擣","擤","擥","擦","擧","擨","擩","擪","擫","擬",
    "擭","擮","擯","擰","擱","擲","擳","擴","擵","擶","擷","擸","擹","擺","擻","擼","擽","擾","擿","斀","斁","斂","斃",
    "斄","斅","斆","文","斈","斉","斊","斋","斌","斍","斎","斏","斐","斑","斒","斓","斔","斕","斖","斗","斘","料","斚",
    "斛","斜","斝","斞","斟","斠","斡","斢","斣","斤","斥","斦","斧","斨","斩","斪","斫","斬","断","斮","斯","新","斱",
    "斲","斳","斴","斵","斶","斷","斸","方","斺","斻","於","施","斾","斿","旀","旁","旂","旃","旄","旅","旆","旇","旈",
    "旉","旊","旋","旌","旍","旎","族","旐","旑","旒","旓","旔","旕","旖","旗","旘","旙","旚","旛","旜","旝","旞","旟",
    "无","旡","既","旣","旤","日","旦","旧","旨","早","旪","旫","旬","旭","旮","旯","旰","旱","旲","旳","旴","旵","时",
    "旷","旸","旹","旺","旻","旼","旽","旾","旿","暀","暁","暂","暃","暄","暅","暆","暇","暈","暉","暊","暋","暌","暍",
    "暎","暏","暐","暑","暒","暓","暔","暕","暖","暗","暘","暙","暚","暛","暜","暝","暞","暟","暠","暡","暢","暣","暤",
    "暥","暦","暧","暨","暩","暪","暫","暬","暭","暮","暯","暰","暱","暲","暳","暴","暵","暶","暷","暸","暹","暺","暻",
    "暼","暽","暾","暿","曀","曁","曂","曃","曄","曅","曆","曇","曈","曉","曊","曋","曌","曍","曎","曏","曐","曑","曒",
    "曓","曔","曕","曖","曗","曘","曙","曚","曛","曜","曝","曞","曟","曠","曡","曢","曣","曤","曥","曦","曧","曨","曩",
    "曪","曫","曬","曭","曮","曯","曰","曱","曲","曳","更","曵","曶","曷","書","曹","曺","曻","曼","曽","曾","替","枀",
    "极","枂","枃","构","枅","枆","枇","枈","枉","枊","枋","枌","枍","枎","枏","析","枑","枒","枓","枔","枕","枖","林",
    "枘","枙","枚","枛","果","枝","枞","枟","枠","枡","枢","枣","枤","枥","枦","枧","枨","枩","枪","枫","枬","枭","枮",
    "枯","枰","枱","枲","枳","枴","枵","架","枷","枸","枹","枺","枻","枼","枽","枾","枿","柀","柁","柂","柃","柄","柅",
    "柆","柇","柈","柉","柊","柋","柌","柍","柎","柏","某","柑","柒","染","柔","柕","柖","柗","柘","柙","柚","柛","柜",
    "柝","柞","柟","柠","柡","柢","柣","柤","查","柦","柧","柨","柩","柪","柫","柬","柭","柮","柯","柰","柱","柲","柳",
    "柴","柵","柶","柷","柸","柹","柺","査","柼","柽","柾","柿","梀","梁","梂","梃","梄","梅","梆","梇","梈","梉","梊",
    "梋","梌","梍","梎","梏","梐","梑","梒","梓","梔","梕","梖","梗","梘","梙","梚","梛","梜","條","梞","梟","梠","梡",
    "梢","梣","梤","梥","梦","梧","梨","梩","梪","梫","梬","梭","梮","梯","械","梱","梲","梳","梴","梵","梶","梷","梸",
    "梹","梺","梻","梼","梽","梾","梿","检","棁","棂","棃","棄","棅","棆","棇","棈","棉","棊","棋","棌","棍","棎","棏",
    "棐","棑","棒","棓","棔","棕","棖","棗","棘","棙","棚","棛","棜","棝","棞","棟","棠","棡","棢","棣","棤","棥","棦",
    "棧","棨","棩","棪","棫","棬","棭","森","棯","棰","棱","棲","棳","棴","棵","棶","棷","棸","棹","棺","棻","棼","棽",
    "棾","棿","榀","榁","概","榃","榄","榅","榆","榇","榈","榉","榊","榋","榌","榍","榎","榏","榐","榑","榒","榓","榔",
    "榕","榖","榗","榘","榙","榚","榛","榜","榝","榞","榟","榠","榡","榢","榣","榤","榥","榦","榧","榨","榩","榪","榫",
    "榬","榭","榮","榯","榰","榱","榲","榳","榴","榵","榶","榷","榸","榹","榺","榻","榼","榽","榾","榿","槀","槁","槂",
    "槃","槄","槅","槆","槇","槈","槉","槊","構","槌","槍","槎","槏","槐","槑","槒","槓","槔","槕","槖","槗","様","槙",
    "槚","槛","槜","槝","槞","槟","槠","槡","槢","槣","槤","槥","槦","槧","槨","槩","槪","槫","槬","槭","槮","槯","槰",
    "槱","槲","槳","槴","槵","槶","槷","槸","槹","槺","槻","槼","槽","槾","槿","檀","檁","檂","檃","檄","檅","檆","檇",
    "檈","檉","檊","檋","檌","檍","檎","檏","檐","檑","檒","檓","檔","檕","檖","檗","檘","檙","檚","檛","檜","檝","檞",
    "檟","檠","檡","檢","檣","檤","檥","檦","檧","檨","檩","檪","檫","檬","檭","檮","檯","檰","檱","檲","檳","檴","檵",
    "檶","檷","檸","檹","檺","檻","檼","檽","檾","檿","櫀","櫁","櫂","櫃","櫄","櫅","櫆","櫇","櫈","櫉","櫊","櫋","櫌",
    "櫍","櫎","櫏","櫐","櫑","櫒","櫓","櫔","櫕","櫖","櫗","櫘","櫙","櫚","櫛","櫜","櫝","櫞","櫟","櫠","櫡","櫢","櫣",
    "櫤","櫥","櫦","櫧","櫨","櫩","櫪","櫫","櫬","櫭","櫮","櫯","櫰","櫱","櫲","櫳","櫴","櫵","櫶","櫷","櫸","櫹","櫺",
    "櫻","櫼","櫽","櫾","櫿","殀","殁","殂","殃","殄","殅","殆","殇","殈","殉","殊","残","殌","殍","殎","殏","殐","殑",
    "殒","殓","殔","殕","殖","殗","殘","殙","殚","殛","殜","殝","殞","殟","殠","殡","殢","殣","殤","殥","殦","殧","殨",
    "殩","殪","殫","殬","殭","殮","殯","殰","殱","殲","殳","殴","段","殶","殷","殸","殹","殺","殻","殼","殽","殾","殿",
    "毀","毁","毂","毃","毄","毅","毆","毇","毈","毉","毊","毋","毌","母","毎","每","毐","毑","毒","毓","比","毕","毖",
    "毗","毘","毙","毚","毛","毜","毝","毞","毟","毠","毡","毢","毣","毤","毥","毦","毧","毨","毩","毪","毫","毬","毭",
    "毮","毯","毰","毱","毲","毳","毴","毵","毶","毷","毸","毹","毺","毻","毼","毽","毾","毿","沀","沁","沂","沃","沄",
    "沅","沆","沇","沈","沉","沊","沋","沌","沍","沎","沏","沐","沑","沒","沓","沔","沕","沖","沗","沘","沙","沚","沛",
    "沜","沝","沞","沟","沠","没","沢","沣","沤","沥","沦","沧","沨","沩","沪","沫","沬","沭","沮","沯","沰","沱","沲",
    "河","沴","沵","沶","沷","沸","油","沺","治","沼","沽","沾","沿","泀","況","泂","泃","泄","泅","泆","泇","泈","泉",
    "泊","泋","泌","泍","泎","泏","泐","泑","泒","泓","泔","法","泖","泗","泘","泙","泚","泛","泜","泝","泞","泟","泠",
    "泡","波","泣","泤","泥","泦","泧","注","泩","泪","泫","泬","泭","泮","泯","泰","泱","泲","泳","泴","泵","泶","泷",
    "泸","泹","泺","泻","泼","泽","泾","泿","涀","涁","涂","涃","涄","涅","涆","涇","消","涉","涊","涋","涌","涍","涎",
    "涏","涐","涑","涒","涓","涔","涕","涖","涗","涘","涙","涚","涛","涜","涝","涞","涟","涠","涡","涢","涣","涤","涥",
    "润","涧","涨","涩","涪","涫","涬","涭","涮","涯","涰","涱","液","涳","涴","涵","涶","涷","涸","涹","涺","涻","涼",
    "涽","涾","涿","淀","淁","淂","淃","淄","淅","淆","淇","淈","淉","淊","淋","淌","淍","淎","淏","淐","淑","淒","淓",
    "淔","淕","淖","淗","淘","淙","淚","淛","淜","淝","淞","淟","淠","淡","淢","淣","淤","淥","淦","淧","淨","淩","淪",
    "淫","淬","淭","淮","淯","淰","深","淲","淳","淴","淵","淶","混","淸","淹","淺","添","淼","淽","淾","淿","満","溁",
    "溂","溃","溄","溅","溆","溇","溈","溉","溊","溋","溌","溍","溎","溏","源","溑","溒","溓","溔","溕","準","溗","溘",
    "溙","溚","溛","溜","溝","溞","溟","溠","溡","溢","溣","溤","溥","溦","溧","溨","溩","溪","溫","溬","溭","溮","溯",
    "溰","溱","溲","溳","溴","溵","溶","溷","溸","溹","溺","溻","溼","溽","溾","溿","滀","滁","滂","滃","滄","滅","滆",
    "滇","滈","滉","滊","滋","滌","滍","滎","滏","滐","滑","滒","滓","滔","滕","滖","滗","滘","滙","滚","滛","滜","滝",
    "滞","滟","滠","满","滢","滣","滤","滥","滦","滧","滨","滩","滪","滫","滬","滭","滮","滯","滰","滱","滲","滳","滴",
    "滵","滶","滷","滸","滹","滺","滻","滼","滽","滾","滿","澀","澁","澂","澃","澄","澅","澆","澇","澈","澉","澊","澋",
    "澌","澍","澎","澏","澐","澑","澒","澓","澔","澕","澖","澗","澘","澙","澚","澛","澜","澝","澞","澟","澠","澡","澢",
    "澣","澤","澥","澦","澧","澨","澩","澪","澫","澬","澭","澮","澯","澰","澱","澲","澳","澴","澵","澶","澷","澸","澹",
    "澺","澻","澼","澽","澾","澿","激","濁","濂","濃","濄","濅","濆","濇","濈","濉","濊","濋","濌","濍","濎","濏","濐",
    "濑","濒","濓","濔","濕","濖","濗","濘","濙","濚","濛","濜","濝","濞","濟","濠","濡","濢","濣","濤","濥","濦","濧",
    "濨","濩","濪","濫","濬","濭","濮","濯","濰","濱","濲","濳","濴","濵","濶","濷","濸","濹","濺","濻","濼","濽","濾",
    "濿","炀","炁","炂","炃","炄","炅","炆","炇","炈","炉","炊","炋","炌","炍","炎","炏","炐","炑","炒","炓","炔","炕",
    "炖","炗","炘","炙","炚","炛","炜","炝","炞","炟","炠","炡","炢","炣","炤","炥","炦","炧","炨","炩","炪","炫","炬",
    "炭","炮","炯","炰","炱","炲","炳","炴","炵","炶","炷","炸","点","為","炻","炼","炽","炾","炿","烀","烁","烂","烃",
    "烄","烅","烆","烇","烈","烉","烊","烋","烌","烍","烎","烏","烐","烑","烒","烓","烔","烕","烖","烗","烘","烙","烚",
    "烛","烜","烝","烞","烟","烠","烡","烢","烣","烤","烥","烦","烧","烨","烩","烪","烫","烬","热","烮","烯","烰","烱",
    "烲","烳","烴","烵","烶","烷","烸","烹","烺","烻","烼","烽","烾","烿","熀","熁","熂","熃","熄","熅","熆","熇","熈",
    "熉","熊","熋","熌","熍","熎","熏","熐","熑","熒","熓","熔","熕","熖","熗","熘","熙","熚","熛","熜","熝","熞","熟",
    "熠","熡","熢","熣","熤","熥","熦","熧","熨","熩","熪","熫","熬","熭","熮","熯","熰","熱","熲","熳","熴","熵","熶",
    "熷","熸","熹","熺","熻","熼","熽","熾","熿","燀","燁","燂","燃","燄","燅","燆","燇","燈","燉","燊","燋","燌","燍",
    "燎","燏","燐","燑","燒","燓","燔","燕","燖","燗","燘","燙","燚","燛","燜","燝","燞","營","燠","燡","燢","燣","燤",
    "燥","燦","燧","燨","燩","燪","燫","燬","燭","燮","燯","燰","燱","燲","燳","燴","燵","燶","燷","燸","燹","燺","燻",
    "燼","燽","燾","燿","犀","犁","犂","犃","犄","犅","犆","犇","犈","犉","犊","犋","犌","犍","犎","犏","犐","犑","犒",
    "犓","犔","犕","犖","犗","犘","犙","犚","犛","犜","犝","犞","犟","犠","犡","犢","犣","犤","犥","犦","犧","犨","犩",
    "犪","犫","犬","犭","犮","犯","犰","犱","犲","犳","犴","犵","状","犷","犸","犹","犺","犻","犼","犽","犾","犿","狀",
    "狁","狂","狃","狄","狅","狆","狇","狈","狉","狊","狋","狌","狍","狎","狏","狐","狑","狒","狓","狔","狕","狖","狗",
    "狘","狙","狚","狛","狜","狝","狞","狟","狠","狡","狢","狣","狤","狥","狦","狧","狨","狩","狪","狫","独","狭","狮",
    "狯","狰","狱","狲","狳","狴","狵","狶","狷","狸","狹","狺","狻","狼","狽","狾","狿","玀","玁","玂","玃","玄","玅",
    "玆","率","玈","玉","玊","王","玌","玍","玎","玏","玐","玑","玒","玓","玔","玕","玖","玗","玘","玙","玚","玛","玜",
    "玝","玞","玟","玠","玡","玢","玣","玤","玥","玦","玧","玨","玩","玪","玫","玬","玭","玮","环","现","玱","玲","玳",
    "玴","玵","玶","玷","玸","玹","玺","玻","玼","玽","玾","玿","珀","珁","珂","珃","珄","珅","珆","珇","珈","珉","珊",
    "珋","珌","珍","珎","珏","珐","珑","珒","珓","珔","珕","珖","珗","珘","珙","珚","珛","珜","珝","珞","珟","珠","珡",
    "珢","珣","珤","珥","珦","珧","珨","珩","珪","珫","珬","班","珮","珯","珰","珱","珲","珳","珴","珵","珶","珷","珸",
    "珹","珺","珻","珼","珽","現","珿","璀","璁","璂","璃","璄","璅","璆","璇","璈","璉","璊","璋","璌","璍","璎","璏",
    "璐","璑","璒","璓","璔","璕","璖","璗","璘","璙","璚","璛","璜","璝","璞","璟","璠","璡","璢","璣","璤","璥","璦",
    "璧","璨","璩","璪","璫","璬","璭","璮","璯","環","璱","璲","璳","璴","璵","璶","璷","璸","璹","璺","璻","璼","璽",
    "璾","璿","瓀","瓁","瓂","瓃","瓄","瓅","瓆","瓇","瓈","瓉","瓊","瓋","瓌","瓍","瓎","瓏","瓐","瓑","瓒","瓓","瓔",
    "瓕","瓖","瓗","瓘","瓙","瓚","瓛","瓜","瓝","瓞","瓟","瓠","瓡","瓢","瓣","瓤","瓥","瓦","瓧","瓨","瓩","瓪","瓫",
    "瓬","瓭","瓮","瓯","瓰","瓱","瓲","瓳","瓴","瓵","瓶","瓷","瓸","瓹","瓺","瓻","瓼","瓽","瓾","瓿","疀","疁","疂",
    "疃","疄","疅","疆","疇","疈","疉","疊","疋","疌","疍","疎","疏","疐","疑","疒","疓","疔","疕","疖","疗","疘","疙",
    "疚","疛","疜","疝","疞","疟","疠","疡","疢","疣","疤","疥","疦","疧","疨","疩","疪","疫","疬","疭","疮","疯","疰",
    "疱","疲","疳","疴","疵","疶","疷","疸","疹","疺","疻","疼","疽","疾","疿","痀","痁","痂","痃","痄","病","痆","症",
    "痈","痉","痊","痋","痌","痍","痎","痏","痐","痑","痒","痓","痔","痕","痖","痗","痘","痙","痚","痛","痜","痝","痞",
    "痟","痠","痡","痢","痣","痤","痥","痦","痧","痨","痩","痪","痫","痬","痭","痮","痯","痰","痱","痲","痳","痴","痵",
    "痶","痷","痸","痹","痺","痻","痼","痽","痾","痿","皀","皁","皂","皃","的","皅","皆","皇","皈","皉","皊","皋","皌",
    "皍","皎","皏","皐","皑","皒","皓","皔","皕","皖","皗","皘","皙","皚","皛","皜","皝","皞","皟","皠","皡","皢","皣",
    "皤","皥","皦","皧","皨","皩","皪","皫","皬","皭","皮","皯","皰","皱","皲","皳","皴","皵","皶","皷","皸","皹","皺",
    "皻","皼","皽","皾","皿","盀","盁","盂","盃","盄","盅","盆","盇","盈","盉","益","盋","盌","盍","盎","盏","盐","监",
    "盒","盓","盔","盕","盖","盗","盘","盙","盚","盛","盜","盝","盞","盟","盠","盡","盢","監","盤","盥","盦","盧","盨",
    "盩","盪","盫","盬","盭","目","盯","盰","盱","盲","盳","直","盵","盶","盷","相","盹","盺","盻","盼","盽","盾","盿",
    "瞀","瞁","瞂","瞃","瞄","瞅","瞆","瞇","瞈","瞉","瞊","瞋","瞌","瞍","瞎","瞏","瞐","瞑","瞒","瞓","瞔","瞕","瞖",
    "瞗","瞘","瞙","瞚","瞛","瞜","瞝","瞞","瞟","瞠","瞡","瞢","瞣","瞤","瞥","瞦","瞧","瞨","瞩","瞪","瞫","瞬","瞭",
    "瞮","瞯","瞰","瞱","瞲","瞳","瞴","瞵","瞶","瞷","瞸","瞹","瞺","瞻","瞼","瞽","瞾","瞿","矀","矁","矂","矃","矄",
    "矅","矆","矇","矈","矉","矊","矋","矌","矍","矎","矏","矐","矑","矒","矓","矔","矕","矖","矗","矘","矙","矚","矛",
    "矜","矝","矞","矟","矠","矡","矢","矣","矤","知","矦","矧","矨","矩","矪","矫","矬","短","矮","矯","矰","矱","矲",
    "石","矴","矵","矶","矷","矸","矹","矺","矻","矼","矽","矾","矿","碀","碁","碂","碃","碄","碅","碆","碇","碈","碉",
    "碊","碋","碌","碍","碎","碏","碐","碑","碒","碓","碔","碕","碖","碗","碘","碙","碚","碛","碜","碝","碞","碟","碠",
    "碡","碢","碣","碤","碥","碦","碧","碨","碩","碪","碫","碬","碭","碮","碯","碰","碱","碲","碳","碴","碵","碶","碷",
    "碸","碹","確","碻","碼","碽","碾","碿","磀","磁","磂","磃","磄","磅","磆","磇","磈","磉","磊","磋","磌","磍","磎",
    "磏","磐","磑","磒","磓","磔","磕","磖","磗","磘","磙","磚","磛","磜","磝","磞","磟","磠","磡","磢","磣","磤","磥",
    "磦","磧","磨","磩","磪","磫","磬","磭","磮","磯","磰","磱","磲","磳","磴","磵","磶","磷","磸","磹","磺","磻","磼",
    "磽","磾","磿","禀","禁","禂","禃","禄","禅","禆","禇","禈","禉","禊","禋","禌","禍","禎","福","禐","禑","禒","禓",
    "禔","禕","禖","禗","禘","禙","禚","禛","禜","禝","禞","禟","禠","禡","禢","禣","禤","禥","禦","禧","禨","禩","禪",
    "禫","禬","禭","禮","禯","禰","禱","禲","禳","禴","禵","禶","禷","禸","禹","禺","离","禼","禽","禾","禿","秀","私",
    "秂","秃","秄","秅","秆","秇","秈","秉","秊","秋","秌","种","秎","秏","秐","科","秒","秓","秔","秕","秖","秗","秘",
    "秙","秚","秛","秜","秝","秞","租","秠","秡","秢","秣","秤","秥","秦","秧","秨","秩","秪","秫","秬","秭","秮","积",
    "称","秱","秲","秳","秴","秵","秶","秷","秸","秹","秺","移","秼","秽","秾","秿","窀","突","窂","窃","窄","窅","窆",
    "窇","窈","窉","窊","窋","窌","窍","窎","窏","窐","窑","窒","窓","窔","窕","窖","窗","窘","窙","窚","窛","窜","窝",
    "窞","窟","窠","窡","窢","窣","窤","窥","窦","窧","窨","窩","窪","窫","窬","窭","窮","窯","窰","窱","窲","窳","窴",
    "窵","窶","窷","窸","窹","窺","窻","窼","窽","窾","窿","竀","竁","竂","竃","竄","竅","竆","竇","竈","竉","竊","立",
    "竌","竍","竎","竏","竐","竑","竒","竓","竔","竕","竖","竗","竘","站","竚","竛","竜","竝","竞","竟","章","竡","竢",
    "竣","竤","童","竦","竧","竨","竩","竪","竫","竬","竭","竮","端","竰","竱","竲","竳","竴","竵","競","竷","竸","竹",
    "竺","竻","竼","竽","竾","竿","简","箁","箂","箃","箄","箅","箆","箇","箈","箉","箊","箋","箌","箍","箎","箏","箐",
    "箑","箒","箓","箔","箕","箖","算","箘","箙","箚","箛","箜","箝","箞","箟","箠","管","箢","箣","箤","箥","箦","箧",
    "箨","箩","箪","箫","箬","箭","箮","箯","箰","箱","箲","箳","箴","箵","箶","箷","箸","箹","箺","箻","箼","箽","箾",
    "箿","節","篁","篂","篃","範","篅","篆","篇","篈","築","篊","篋","篌","篍","篎","篏","篐","篑","篒","篓","篔","篕",
    "篖","篗","篘","篙","篚","篛","篜","篝","篞","篟","篠","篡","篢","篣","篤","篥","篦","篧","篨","篩","篪","篫","篬",
    "篭","篮","篯","篰","篱","篲","篳","篴","篵","篶","篷","篸","篹","篺","篻","篼","篽","篾","篿","粀","粁","粂","粃",
    "粄","粅","粆","粇","粈","粉","粊","粋","粌","粍","粎","粏","粐","粑","粒","粓","粔","粕","粖","粗","粘","粙","粚",
    "粛","粜","粝","粞","粟","粠","粡","粢","粣","粤","粥","粦","粧","粨","粩","粪","粫","粬","粭","粮","粯","粰","粱",
    "粲","粳","粴","粵","粶","粷","粸","粹","粺","粻","粼","粽","精","粿","糀","糁","糂","糃","糄","糅","糆","糇","糈",
    "糉","糊","糋","糌","糍","糎","糏","糐","糑","糒","糓","糔","糕","糖","糗","糘","糙","糚","糛","糜","糝","糞","糟",
    "糠","糡","糢","糣","糤","糥","糦","糧","糨","糩","糪","糫","糬","糭","糮","糯","糰","糱","糲","糳","糴","糵","糶",
    "糷","糸","糹","糺","系","糼","糽","糾","糿","綀","綁","綂","綃","綄","綅","綆","綇","綈","綉","綊","綋","綌","綍",
    "綎","綏","綐","綑","綒","經","綔","綕","綖","綗","綘","継","続","綛","綜","綝","綞","綟","綠","綡","綢","綣","綤",
    "綥","綦","綧","綨","綩","綪","綫","綬","維","綮","綯","綰","綱","網","綳","綴","綵","綶","綷","綸","綹","綺","綻",
    "綼","綽","綾","綿","緀","緁","緂","緃","緄","緅","緆","緇","緈","緉","緊","緋","緌","緍","緎","総","緐","緑","緒",
    "緓","緔","緕","緖","緗","緘","緙","線","緛","緜","緝","緞","緟","締","緡","緢","緣","緤","緥","緦","緧","編","緩",
    "緪","緫","緬","緭","緮","緯","緰","緱","緲","緳","練","緵","緶","緷","緸","緹","緺","緻","緼","緽","緾","緿","纀",
    "纁","纂","纃","纄","纅","纆","纇","纈","纉","纊","纋","續","纍","纎","纏","纐","纑","纒","纓","纔","纕","纖","纗",
    "纘","纙","纚","纛","纜","纝","纞","纟","纠","纡","红","纣","纤","纥","约","级","纨","纩","纪","纫","纬","纭","纮",
    "纯","纰","纱","纲","纳","纴","纵","纶","纷","纸","纹","纺","纻","纼","纽","纾","线","绀","绁","绂","练","组","绅",
    "细","织","终","绉","绊","绋","绌","绍","绎","经","绐","绑","绒","结","绔","绕","绖","绗","绘","给","绚","绛","络",
    "绝","绞","统","绠","绡","绢","绣","绤","绥","绦","继","绨","绩","绪","绫","绬","续","绮","绯","绰","绱","绲","绳",
    "维","绵","绶","绷","绸","绹","绺","绻","综","绽","绾","绿","羀","羁","羂","羃","羄","羅","羆","羇","羈","羉","羊",
    "羋","羌","羍","美","羏","羐","羑","羒","羓","羔","羕","羖","羗","羘","羙","羚","羛","羜","羝","羞","羟","羠","羡",
    "羢","羣","群","羥","羦","羧","羨","義","羪","羫","羬","羭","羮","羯","羰","羱","羲","羳","羴","羵","羶","羷","羸",
    "羹","羺","羻","羼","羽","羾","羿","翀","翁","翂","翃","翄","翅","翆","翇","翈","翉","翊","翋","翌","翍","翎","翏",
    "翐","翑","習","翓","翔","翕","翖","翗","翘","翙","翚","翛","翜","翝","翞","翟","翠","翡","翢","翣","翤","翥","翦",
    "翧","翨","翩","翪","翫","翬","翭","翮","翯","翰","翱","翲","翳","翴","翵","翶","翷","翸","翹","翺","翻","翼","翽",
    "翾","翿","肀","肁","肂","肃","肄","肅","肆","肇","肈","肉","肊","肋","肌","肍","肎","肏","肐","肑","肒","肓","肔",
    "肕","肖","肗","肘","肙","肚","肛","肜","肝","肞","肟","肠","股","肢","肣","肤","肥","肦","肧","肨","肩","肪","肫",
    "肬","肭","肮","肯","肰","肱","育","肳","肴","肵","肶","肷","肸","肹","肺","肻","肼","肽","肾","肿","胀","胁","胂",
    "胃","胄","胅","胆","胇","胈","胉","胊","胋","背","胍","胎","胏","胐","胑","胒","胓","胔","胕","胖","胗","胘","胙",
    "胚","胛","胜","胝","胞","胟","胠","胡","胢","胣","胤","胥","胦","胧","胨","胩","胪","胫","胬","胭","胮","胯","胰",
    "胱","胲","胳","胴","胵","胶","胷","胸","胹","胺","胻","胼","能","胾","胿","膀","膁","膂","膃","膄","膅","膆","膇",
    "膈","膉","膊","膋","膌","膍","膎","膏","膐","膑","膒","膓","膔","膕","膖","膗","膘","膙","膚","膛","膜","膝","膞",
    "膟","膠","膡","膢","膣","膤","膥","膦","膧","膨","膩","膪","膫","膬","膭","膮","膯","膰","膱","膲","膳","膴","膵",
    "膶","膷","膸","膹","膺","膻","膼","膽","膾","膿","臀","臁","臂","臃","臄","臅","臆","臇","臈","臉","臊","臋","臌",
    "臍","臎","臏","臐","臑","臒","臓","臔","臕","臖","臗","臘","臙","臚","臛","臜","臝","臞","臟","臠","臡","臢","臣",
    "臤","臥","臦","臧","臨","臩","自","臫","臬","臭","臮","臯","臰","臱","臲","至","致","臵","臶","臷","臸","臹","臺",
    "臻","臼","臽","臾","臿","芀","芁","节","芃","芄","芅","芆","芇","芈","芉","芊","芋","芌","芍","芎","芏","芐","芑",
    "芒","芓","芔","芕","芖","芗","芘","芙","芚","芛","芜","芝","芞","芟","芠","芡","芢","芣","芤","芥","芦","芧","芨",
    "芩","芪","芫","芬","芭","芮","芯","芰","花","芲","芳","芴","芵","芶","芷","芸","芹","芺","芻","芼","芽","芾","芿",
    "苀","苁","苂","苃","苄","苅","苆","苇","苈","苉","苊","苋","苌","苍","苎","苏","苐","苑","苒","苓","苔","苕","苖",
    "苗","苘","苙","苚","苛","苜","苝","苞","苟","苠","苡","苢","苣","苤","若","苦","苧","苨","苩","苪","苫","苬","苭",
    "苮","苯","苰","英","苲","苳","苴","苵","苶","苷","苸","苹","苺","苻","苼","苽","苾","苿","莀","莁","莂","莃","莄",
    "莅","莆","莇","莈","莉","莊","莋","莌","莍","莎","莏","莐","莑","莒","莓","莔","莕","莖","莗","莘","莙","莚","莛",
    "莜","莝","莞","莟","莠","莡","莢","莣","莤","莥","莦","莧","莨","莩","莪","莫","莬","莭","莮","莯","莰","莱","莲",
    "莳","莴","莵","莶","获","莸","莹","莺","莻","莼","莽","莾","莿","菀","菁","菂","菃","菄","菅","菆","菇","菈","菉",
    "菊","菋","菌","菍","菎","菏","菐","菑","菒","菓","菔","菕","菖","菗","菘","菙","菚","菛","菜","菝","菞","菟","菠",
    "菡","菢","菣","菤","菥","菦","菧","菨","菩","菪","菫","菬","菭","菮","華","菰","菱","菲","菳","菴","菵","菶","菷",
    "菸","菹","菺","菻","菼","菽","菾","菿","蒀","蒁","蒂","蒃","蒄","蒅","蒆","蒇","蒈","蒉","蒊","蒋","蒌","蒍","蒎",
    "蒏","蒐","蒑","蒒","蒓","蒔","蒕","蒖","蒗","蒘","蒙","蒚","蒛","蒜","蒝","蒞","蒟","蒠","蒡","蒢","蒣","蒤","蒥",
    "蒦","蒧","蒨","蒩","蒪","蒫","蒬","蒭","蒮","蒯","蒰","蒱","蒲","蒳","蒴","蒵","蒶","蒷","蒸","蒹","蒺","蒻","蒼",
    "蒽","蒾","蒿","蓀","蓁","蓂","蓃","蓄","蓅","蓆","蓇","蓈","蓉","蓊","蓋","蓌","蓍","蓎","蓏","蓐","蓑","蓒","蓓",
    "蓔","蓕","蓖","蓗","蓘","蓙","蓚","蓛","蓜","蓝","蓞","蓟","蓠","蓡","蓢","蓣","蓤","蓥","蓦","蓧","蓨","蓩","蓪",
    "蓫","蓬","蓭","蓮","蓯","蓰","蓱","蓲","蓳","蓴","蓵","蓶","蓷","蓸","蓹","蓺","蓻","蓼","蓽","蓾","蓿","薀","薁",
    "薂","薃","薄","薅","薆","薇","薈","薉","薊","薋","薌","薍","薎","薏","薐","薑","薒","薓","薔","薕","薖","薗","薘",
    "薙","薚","薛","薜","薝","薞","薟","薠","薡","薢","薣","薤","薥","薦","薧","薨","薩","薪","薫","薬","薭","薮","薯",
    "薰","薱","薲","薳","薴","薵","薶","薷","薸","薹","薺","薻","薼","薽","薾","薿","藀","藁","藂","藃","藄","藅","藆",
    "藇","藈","藉","藊","藋","藌","藍","藎","藏","藐","藑","藒","藓","藔","藕","藖","藗","藘","藙","藚","藛","藜","藝",
    "藞","藟","藠","藡","藢","藣","藤","藥","藦","藧","藨","藩","藪","藫","藬","藭","藮","藯","藰","藱","藲","藳","藴",
    "藵","藶","藷","藸","藹","藺","藻","藼","藽","藾","藿","蚀","蚁","蚂","蚃","蚄","蚅","蚆","蚇","蚈","蚉","蚊","蚋",
    "蚌","蚍","蚎","蚏","蚐","蚑","蚒","蚓","蚔","蚕","蚖","蚗","蚘","蚙","蚚","蚛","蚜","蚝","蚞","蚟","蚠","蚡","蚢",
    "蚣","蚤","蚥","蚦","蚧","蚨","蚩","蚪","蚫","蚬","蚭","蚮","蚯","蚰","蚱","蚲","蚳","蚴","蚵","蚶","蚷","蚸","蚹",
    "蚺","蚻","蚼","蚽","蚾","蚿","蛀","蛁","蛂","蛃","蛄","蛅","蛆","蛇","蛈","蛉","蛊","蛋","蛌","蛍","蛎","蛏","蛐",
    "蛑","蛒","蛓","蛔","蛕","蛖","蛗","蛘","蛙","蛚","蛛","蛜","蛝","蛞","蛟","蛠","蛡","蛢","蛣","蛤","蛥","蛦","蛧",
    "蛨","蛩","蛪","蛫","蛬","蛭","蛮","蛯","蛰","蛱","蛲","蛳","蛴","蛵","蛶","蛷","蛸","蛹","蛺","蛻","蛼","蛽","蛾",
    "蛿","螀","螁","螂","螃","螄","螅","螆","螇","螈","螉","螊","螋","螌","融","螎","螏","螐","螑","螒","螓","螔","螕",
    "螖","螗","螘","螙","螚","螛","螜","螝","螞","螟","螠","螡","螢","螣","螤","螥","螦","螧","螨","螩","螪","螫","螬",
    "螭","螮","螯","螰","螱","螲","螳","螴","螵","螶","螷","螸","螹","螺","螻","螼","螽","螾","螿","蟀","蟁","蟂","蟃",
    "蟄","蟅","蟆","蟇","蟈","蟉","蟊","蟋","蟌","蟍","蟎","蟏","蟐","蟑","蟒","蟓","蟔","蟕","蟖","蟗","蟘","蟙","蟚",
    "蟛","蟜","蟝","蟞","蟟","蟠","蟡","蟢","蟣","蟤","蟥","蟦","蟧","蟨","蟩","蟪","蟫","蟬","蟭","蟮","蟯","蟰","蟱",
    "蟲","蟳","蟴","蟵","蟶","蟷","蟸","蟹","蟺","蟻","蟼","蟽","蟾","蟿","袀","袁","袂","袃","袄","袅","袆","袇","袈",
    "袉","袊","袋","袌","袍","袎","袏","袐","袑","袒","袓","袔","袕","袖","袗","袘","袙","袚","袛","袜","袝","袞","袟",
    "袠","袡","袢","袣","袤","袥","袦","袧","袨","袩","袪","被","袬","袭","袮","袯","袰","袱","袲","袳","袴","袵","袶",
    "袷","袸","袹","袺","袻","袼","袽","袾","袿","裀","裁","裂","裃","裄","装","裆","裇","裈","裉","裊","裋","裌","裍",
    "裎","裏","裐","裑","裒","裓","裔","裕","裖","裗","裘","裙","裚","裛","補","裝","裞","裟","裠","裡","裢","裣","裤",
    "裥","裦","裧","裨","裩","裪","裫","裬","裭","裮","裯","裰","裱","裲","裳","裴","裵","裶","裷","裸","裹","裺","裻",
    "裼","製","裾","裿","覀","要","覂","覃","覄","覅","覆","覇","覈","覉","覊","見","覌","覍","覎","規","覐","覑","覒",
    "覓","覔","覕","視","覗","覘","覙","覚","覛","覜","覝","覞","覟","覠","覡","覢","覣","覤","覥","覦","覧","覨","覩",
    "親","覫","覬","覭","覮","覯","覰","覱","覲","観","覴","覵","覶","覷","覸","覹","覺","覻","覼","覽","覾","覿","觀",
    "见","观","觃","规","觅","视","觇","览","觉","觊","觋","觌","觍","觎","觏","觐","觑","角","觓","觔","觕","觖","觗",
    "觘","觙","觚","觛","觜","觝","觞","觟","觠","觡","觢","解","觤","觥","触","觧","觨","觩","觪","觫","觬","觭","觮",
    "觯","觰","觱","觲","觳","觴","觵","觶","觷","觸","觹","觺","觻","觼","觽","觾","觿","誀","誁","誂","誃","誄","誅",
    "誆","誇","誈","誉","誊","誋","誌","認","誎","誏","誐","誑","誒","誓","誔","誕","誖","誗","誘","誙","誚","誛","誜",
    "誝","語","誟","誠","誡","誢","誣","誤","誥","誦","誧","誨","誩","說","誫","説","読","誮","誯","誰","誱","課","誳",
    "誴","誵","誶","誷","誸","誹","誺","誻","誼","誽","誾","調","諀","諁","諂","諃","諄","諅","諆","談","諈","諉","諊",
    "請","諌","諍","諎","諏","諐","諑","諒","諓","諔","諕","論","諗","諘","諙","諚","諛","諜","諝","諞","諟","諠","諡",
    "諢","諣","諤","諥","諦","諧","諨","諩","諪","諫","諬","諭","諮","諯","諰","諱","諲","諳","諴","諵","諶","諷","諸",
    "諹","諺","諻","諼","諽","諾","諿","讀","讁","讂","讃","讄","讅","讆","讇","讈","讉","變","讋","讌","讍","讎","讏",
    "讐","讑","讒","讓","讔","讕","讖","讗","讘","讙","讚","讛","讜","讝","讞","讟","讠","计","订","讣","认","讥","讦",
    "讧","讨","让","讪","讫","讬","训","议","讯","记","讱","讲","讳","讴","讵","讶","讷","许","讹","论","讻","讼","讽",
    "设","访","诀","证","诂","诃","评","诅","识","诇","诈","诉","诊","诋","诌","词","诎","诏","诐","译","诒","诓","诔",
    "试","诖","诗","诘","诙","诚","诛","诜","话","诞","诟","诠","诡","询","诣","诤","该","详","诧","诨","诩","诪","诫",
    "诬","语","诮","误","诰","诱","诲","诳","说","诵","诶","请","诸","诹","诺","读","诼","诽","课","诿","貀","貁","貂",
    "貃","貄","貅","貆","貇","貈","貉","貊","貋","貌","貍","貎","貏","貐","貑","貒","貓","貔","貕","貖","貗","貘","貙",
    "貚","貛","貜","貝","貞","貟","負","財","貢","貣","貤","貥","貦","貧","貨","販","貪","貫","責","貭","貮","貯","貰",
    "貱","貲","貳","貴","貵","貶","買","貸","貹","貺","費","貼","貽","貾","貿","賀","賁","賂","賃","賄","賅","賆","資",
    "賈","賉","賊","賋","賌","賍","賎","賏","賐","賑","賒","賓","賔","賕","賖","賗","賘","賙","賚","賛","賜","賝","賞",
    "賟","賠","賡","賢","賣","賤","賥","賦","賧","賨","賩","質","賫","賬","賭","賮","賯","賰","賱","賲","賳","賴","賵",
    "賶","賷","賸","賹","賺","賻","購","賽","賾","賿","趀","趁","趂","趃","趄","超","趆","趇","趈","趉","越","趋","趌",
    "趍","趎","趏","趐","趑","趒","趓","趔","趕","趖","趗","趘","趙","趚","趛","趜","趝","趞","趟","趠","趡","趢","趣",
    "趤","趥","趦","趧","趨","趩","趪","趫","趬","趭","趮","趯","趰","趱","趲","足","趴","趵","趶","趷","趸","趹","趺",
    "趻","趼","趽","趾","趿","跀","跁","跂","跃","跄","跅","跆","跇","跈","跉","跊","跋","跌","跍","跎","跏","跐","跑",
    "跒","跓","跔","跕","跖","跗","跘","跙","跚","跛","跜","距","跞","跟","跠","跡","跢","跣","跤","跥","跦","跧","跨",
    "跩","跪","跫","跬","跭","跮","路","跰","跱","跲","跳","跴","践","跶","跷","跸","跹","跺","跻","跼","跽","跾","跿",
    "躀","躁","躂","躃","躄","躅","躆","躇","躈","躉","躊","躋","躌","躍","躎","躏","躐","躑","躒","躓","躔","躕","躖",
    "躗","躘","躙","躚","躛","躜","躝","躞","躟","躠","躡","躢","躣","躤","躥","躦","躧","躨","躩","躪","身","躬","躭",
    "躮","躯","躰","躱","躲","躳","躴","躵","躶","躷","躸","躹","躺","躻","躼","躽","躾","躿","軀","軁","軂","軃","軄",
    "軅","軆","軇","軈","軉","車","軋","軌","軍","軎","軏","軐","軑","軒","軓","軔","軕","軖","軗","軘","軙","軚","軛",
    "軜","軝","軞","軟","軠","軡","転","軣","軤","軥","軦","軧","軨","軩","軪","軫","軬","軭","軮","軯","軰","軱","軲",
    "軳","軴","軵","軶","軷","軸","軹","軺","軻","軼","軽","軾","軿","辀","辁","辂","较","辄","辅","辆","辇","辈","辉",
    "辊","辋","辌","辍","辎","辏","辐","辑","辒","输","辔","辕","辖","辗","辘","辙","辚","辛","辜","辝","辞","辟","辠",
    "辡","辢","辣","辤","辥","辦","辧","辨","辩","辪","辫","辬","辭","辮","辯","辰","辱","農","辳","辴","辵","辶","辷",
    "辸","边","辺","辻","込","辽","达","辿","迀","迁","迂","迃","迄","迅","迆","过","迈","迉","迊","迋","迌","迍","迎",
    "迏","运","近","迒","迓","返","迕","迖","迗","还","这","迚","进","远","违","连","迟","迠","迡","迢","迣","迤","迥",
    "迦","迧","迨","迩","迪","迫","迬","迭","迮","迯","述","迱","迲","迳","迴","迵","迶","迷","迸","迹","迺","迻","迼",
    "追","迾","迿","邀","邁","邂","邃","還","邅","邆","邇","邈","邉","邊","邋","邌","邍","邎","邏","邐","邑","邒","邓",
    "邔","邕","邖","邗","邘","邙","邚","邛","邜","邝","邞","邟","邠","邡","邢","那","邤","邥","邦","邧","邨","邩","邪",
    "邫","邬","邭","邮","邯","邰","邱","邲","邳","邴","邵","邶","邷","邸","邹","邺","邻","邼","邽","邾","邿","郀","郁",
    "郂","郃","郄","郅","郆","郇","郈","郉","郊","郋","郌","郍","郎","郏","郐","郑","郒","郓","郔","郕","郖","郗","郘",
    "郙","郚","郛","郜","郝","郞","郟","郠","郡","郢","郣","郤","郥","郦","郧","部","郩","郪","郫","郬","郭","郮","郯",
    "郰","郱","郲","郳","郴","郵","郶","郷","郸","郹","郺","郻","郼","都","郾","郿","醀","醁","醂","醃","醄","醅","醆",
    "醇","醈","醉","醊","醋","醌","醍","醎","醏","醐","醑","醒","醓","醔","醕","醖","醗","醘","醙","醚","醛","醜","醝",
    "醞","醟","醠","醡","醢","醣","醤","醥","醦","醧","醨","醩","醪","醫","醬","醭","醮","醯","醰","醱","醲","醳","醴",
    "醵","醶","醷","醸","醹","醺","醻","醼","醽","醾","醿","釀","釁","釂","釃","釄","釅","釆","采","釈","釉","释","釋",
    "里","重","野","量","釐","金","釒","釓","釔","釕","釖","釗","釘","釙","釚","釛","釜","針","釞","釟","釠","釡","釢",
    "釣","釤","釥","釦","釧","釨","釩","釪","釫","釬","釭","釮","釯","釰","釱","釲","釳","釴","釵","釶","釷","釸","釹",
    "釺","釻","釼","釽","釾","釿","銀","銁","銂","銃","銄","銅","銆","銇","銈","銉","銊","銋","銌","銍","銎","銏","銐",
    "銑","銒","銓","銔","銕","銖","銗","銘","銙","銚","銛","銜","銝","銞","銟","銠","銡","銢","銣","銤","銥","銦","銧",
    "銨","銩","銪","銫","銬","銭","銮","銯","銰","銱","銲","銳","銴","銵","銶","銷","銸","銹","銺","銻","銼","銽","銾",
    "銿","鋀","鋁","鋂","鋃","鋄","鋅","鋆","鋇","鋈","鋉","鋊","鋋","鋌","鋍","鋎","鋏","鋐","鋑","鋒","鋓","鋔","鋕",
    "鋖","鋗","鋘","鋙","鋚","鋛","鋜","鋝","鋞","鋟","鋠","鋡","鋢","鋣","鋤","鋥","鋦","鋧","鋨","鋩","鋪","鋫","鋬",
    "鋭","鋮","鋯","鋰","鋱","鋲","鋳","鋴","鋵","鋶","鋷","鋸","鋹","鋺","鋻","鋼","鋽","鋾","鋿","鎀","鎁","鎂","鎃",
    "鎄","鎅","鎆","鎇","鎈","鎉","鎊","鎋","鎌","鎍","鎎","鎏","鎐","鎑","鎒","鎓","鎔","鎕","鎖","鎗","鎘","鎙","鎚",
    "鎛","鎜","鎝","鎞","鎟","鎠","鎡","鎢","鎣","鎤","鎥","鎦","鎧","鎨","鎩","鎪","鎫","鎬","鎭","鎮","鎯","鎰","鎱",
    "鎲","鎳","鎴","鎵","鎶","鎷","鎸","鎹","鎺","鎻","鎼","鎽","鎾","鎿","鏀","鏁","鏂","鏃","鏄","鏅","鏆","鏇","鏈",
    "鏉","鏊","鏋","鏌","鏍","鏎","鏏","鏐","鏑","鏒","鏓","鏔","鏕","鏖","鏗","鏘","鏙","鏚","鏛","鏜","鏝","鏞","鏟",
    "鏠","鏡","鏢","鏣","鏤","鏥","鏦","鏧","鏨","鏩","鏪","鏫","鏬","鏭","鏮","鏯","鏰","鏱","鏲","鏳","鏴","鏵","鏶",
    "鏷","鏸","鏹","鏺","鏻","鏼","鏽","鏾","鏿","钀","钁","钂","钃","钄","钅","钆","钇","针","钉","钊","钋","钌","钍",
    "钎","钏","钐","钑","钒","钓","钔","钕","钖","钗","钘","钙","钚","钛","钜","钝","钞","钟","钠","钡","钢","钣","钤",
    "钥","钦","钧","钨","钩","钪","钫","钬","钭","钮","钯","钰","钱","钲","钳","钴","钵","钶","钷","钸","钹","钺","钻",
    "钼","钽","钾","钿","铀","铁","铂","铃","铄","铅","铆","铇","铈","铉","铊","铋","铌","铍","铎","铏","铐","铑","铒",
    "铓","铔","铕","铖","铗","铘","铙","铚","铛","铜","铝","铞","铟","铠","铡","铢","铣","铤","铥","铦","铧","铨","铩",
    "铪","铫","铬","铭","铮","铯","铰","铱","铲","铳","铴","铵","银","铷","铸","铹","铺","铻","铼","铽","链","铿","門",
    "閁","閂","閃","閄","閅","閆","閇","閈","閉","閊","開","閌","閍","閎","閏","閐","閑","閒","間","閔","閕","閖","閗",
    "閘","閙","閚","閛","閜","閝","閞","閟","閠","閡","関","閣","閤","閥","閦","閧","閨","閩","閪","閫","閬","閭","閮",
    "閯","閰","閱","閲","閳","閴","閵","閶","閷","閸","閹","閺","閻","閼","閽","閾","閿","闀","闁","闂","闃","闄","闅",
    "闆","闇","闈","闉","闊","闋","闌","闍","闎","闏","闐","闑","闒","闓","闔","闕","闖","闗","闘","闙","闚","闛","關",
    "闝","闞","闟","闠","闡","闢","闣","闤","闥","闦","闧","门","闩","闪","闫","闬","闭","问","闯","闰","闱","闲","闳",
    "间","闵","闶","闷","闸","闹","闺","闻","闼","闽","闾","闿","隀","隁","隂","隃","隄","隅","隆","隇","隈","隉","隊",
    "隋","隌","隍","階","随","隐","隑","隒","隓","隔","隕","隖","隗","隘","隙","隚","際","障","隝","隞","隟","隠","隡",
    "隢","隣","隤","隥","隦","隧","隨","隩","險","隫","隬","隭","隮","隯","隰","隱","隲","隳","隴","隵","隶","隷","隸",
    "隹","隺","隻","隼","隽","难","隿","雀","雁","雂","雃","雄","雅","集","雇","雈","雉","雊","雋","雌","雍","雎","雏",
    "雐","雑","雒","雓","雔","雕","雖","雗","雘","雙","雚","雛","雜","雝","雞","雟","雠","雡","離","難","雤","雥","雦",
    "雧","雨","雩","雪","雫","雬","雭","雮","雯","雰","雱","雲","雳","雴","雵","零","雷","雸","雹","雺","電","雼","雽",
    "雾","雿","鞀","鞁","鞂","鞃","鞄","鞅","鞆","鞇","鞈","鞉","鞊","鞋","鞌","鞍","鞎","鞏","鞐","鞑","鞒","鞓","鞔",
    "鞕","鞖","鞗","鞘","鞙","鞚","鞛","鞜","鞝","鞞","鞟","鞠","鞡","鞢","鞣","鞤","鞥","鞦","鞧","鞨","鞩","鞪","鞫",
    "鞬","鞭","鞮","鞯","鞰","鞱","鞲","鞳","鞴","鞵","鞶","鞷","鞸","鞹","鞺","鞻","鞼","鞽","鞾","鞿","韀","韁","韂",
    "韃","韄","韅","韆","韇","韈","韉","韊","韋","韌","韍","韎","韏","韐","韑","韒","韓","韔","韕","韖","韗","韘","韙",
    "韚","韛","韜","韝","韞","韟","韠","韡","韢","韣","韤","韥","韦","韧","韨","韩","韪","韫","韬","韭","韮","韯","韰",
    "韱","韲","音","韴","韵","韶","韷","韸","韹","韺","韻","韼","韽","韾","響","颀","颁","颂","颃","预","颅","领","颇",
    "颈","颉","颊","颋","颌","颍","颎","颏","颐","频","颒","颓","颔","颕","颖","颗","题","颙","颚","颛","颜","额","颞",
    "颟","颠","颡","颢","颣","颤","颥","颦","颧","風","颩","颪","颫","颬","颭","颮","颯","颰","颱","颲","颳","颴","颵",
    "颶","颷","颸","颹","颺","颻","颼","颽","颾","颿","飀","飁","飂","飃","飄","飅","飆","飇","飈","飉","飊","飋","飌",
    "飍","风","飏","飐","飑","飒","飓","飔","飕","飖","飗","飘","飙","飚","飛","飜","飝","飞","食","飠","飡","飢","飣",
    "飤","飥","飦","飧","飨","飩","飪","飫","飬","飭","飮","飯","飰","飱","飲","飳","飴","飵","飶","飷","飸","飹","飺",
    "飻","飼","飽","飾","飿","馀","馁","馂","馃","馄","馅","馆","馇","馈","馉","馊","馋","馌","馍","馎","馏","馐","馑",
    "馒","馓","馔","馕","首","馗","馘","香","馚","馛","馜","馝","馞","馟","馠","馡","馢","馣","馤","馥","馦","馧","馨",
    "馩","馪","馫","馬","馭","馮","馯","馰","馱","馲","馳","馴","馵","馶","馷","馸","馹","馺","馻","馼","馽","馾","馿",
    "駀","駁","駂","駃","駄","駅","駆","駇","駈","駉","駊","駋","駌","駍","駎","駏","駐","駑","駒","駓","駔","駕","駖",
    "駗","駘","駙","駚","駛","駜","駝","駞","駟","駠","駡","駢","駣","駤","駥","駦","駧","駨","駩","駪","駫","駬","駭",
    "駮","駯","駰","駱","駲","駳","駴","駵","駶","駷","駸","駹","駺","駻","駼","駽","駾","駿","骀","骁","骂","骃","骄",
    "骅","骆","骇","骈","骉","骊","骋","验","骍","骎","骏","骐","骑","骒","骓","骔","骕","骖","骗","骘","骙","骚","骛",
    "骜","骝","骞","骟","骠","骡","骢","骣","骤","骥","骦","骧","骨","骩","骪","骫","骬","骭","骮","骯","骰","骱","骲",
    "骳","骴","骵","骶","骷","骸","骹","骺","骻","骼","骽","骾","骿","髀","髁","髂","髃","髄","髅","髆","髇","髈","髉",
    "髊","髋","髌","髍","髎","髏","髐","髑","髒","髓","體","髕","髖","髗","高","髙","髚","髛","髜","髝","髞","髟","髠",
    "髡","髢","髣","髤","髥","髦","髧","髨","髩","髪","髫","髬","髭","髮","髯","髰","髱","髲","髳","髴","髵","髶","髷",
    "髸","髹","髺","髻","髼","髽","髾","髿","鮀","鮁","鮂","鮃","鮄","鮅","鮆","鮇","鮈","鮉","鮊","鮋","鮌","鮍","鮎",
    "鮏","鮐","鮑","鮒","鮓","鮔","鮕","鮖","鮗","鮘","鮙","鮚","鮛","鮜","鮝","鮞","鮟","鮠","鮡","鮢","鮣","鮤","鮥",
    "鮦","鮧","鮨","鮩","鮪","鮫","鮬","鮭","鮮","鮯","鮰","鮱","鮲","鮳","鮴","鮵","鮶","鮷","鮸","鮹","鮺","鮻","鮼",
    "鮽","鮾","鮿","鯀","鯁","鯂","鯃","鯄","鯅","鯆","鯇","鯈","鯉","鯊","鯋","鯌","鯍","鯎","鯏","鯐","鯑","鯒","鯓",
    "鯔","鯕","鯖","鯗","鯘","鯙","鯚","鯛","鯜","鯝","鯞","鯟","鯠","鯡","鯢","鯣","鯤","鯥","鯦","鯧","鯨","鯩","鯪",
    "鯫","鯬","鯭","鯮","鯯","鯰","鯱","鯲","鯳","鯴","鯵","鯶","鯷","鯸","鯹","鯺","鯻","鯼","鯽","鯾","鯿","鲀","鲁",
    "鲂","鲃","鲄","鲅","鲆","鲇","鲈","鲉","鲊","鲋","鲌","鲍","鲎","鲏","鲐","鲑","鲒","鲓","鲔","鲕","鲖","鲗","鲘",
    "鲙","鲚","鲛","鲜","鲝","鲞","鲟","鲠","鲡","鲢","鲣","鲤","鲥","鲦","鲧","鲨","鲩","鲪","鲫","鲬","鲭","鲮","鲯",
    "鲰","鲱","鲲","鲳","鲴","鲵","鲶","鲷","鲸","鲹","鲺","鲻","鲼","鲽","鲾","鲿","鳀","鳁","鳂","鳃","鳄","鳅","鳆",
    "鳇","鳈","鳉","鳊","鳋","鳌","鳍","鳎","鳏","鳐","鳑","鳒","鳓","鳔","鳕","鳖","鳗","鳘","鳙","鳚","鳛","鳜","鳝",
    "鳞","鳟","鳠","鳡","鳢","鳣","鳤","鳥","鳦","鳧","鳨","鳩","鳪","鳫","鳬","鳭","鳮","鳯","鳰","鳱","鳲","鳳","鳴",
    "鳵","鳶","鳷","鳸","鳹","鳺","鳻","鳼","鳽","鳾","鳿","鶀","鶁","鶂","鶃","鶄","鶅","鶆","鶇","鶈","鶉","鶊","鶋",
    "鶌","鶍","鶎","鶏","鶐","鶑","鶒","鶓","鶔","鶕","鶖","鶗","鶘","鶙","鶚","鶛","鶜","鶝","鶞","鶟","鶠","鶡","鶢",
    "鶣","鶤","鶥","鶦","鶧","鶨","鶩","鶪","鶫","鶬","鶭","鶮","鶯","鶰","鶱","鶲","鶳","鶴","鶵","鶶","鶷","鶸","鶹",
    "鶺","鶻","鶼","鶽","鶾","鶿","鷀","鷁","鷂","鷃","鷄","鷅","鷆","鷇","鷈","鷉","鷊","鷋","鷌","鷍","鷎","鷏","鷐",
    "鷑","鷒","鷓","鷔","鷕","鷖","鷗","鷘","鷙","鷚","鷛","鷜","鷝","鷞","鷟","鷠","鷡","鷢","鷣","鷤","鷥","鷦","鷧",
    "鷨","鷩","鷪","鷫","鷬","鷭","鷮","鷯","鷰","鷱","鷲","鷳","鷴","鷵","鷶","鷷","鷸","鷹","鷺","鷻","鷼","鷽","鷾",
    "鷿","麀","麁","麂","麃","麄","麅","麆","麇","麈","麉","麊","麋","麌","麍","麎","麏","麐","麑","麒","麓","麔","麕",
    "麖","麗","麘","麙","麚","麛","麜","麝","麞","麟","麠","麡","麢","麣","麤","麥","麦","麧","麨","麩","麪","麫","麬",
    "麭","麮","麯","麰","麱","麲","麳","麴","麵","麶","麷","麸","麹","麺","麻","麼","麽","麾","麿","黀","黁","黂","黃",
    "黄","黅","黆","黇","黈","黉","黊","黋","黌","黍","黎","黏","黐","黑","黒","黓","黔","黕","黖","黗","默","黙","黚",
    "黛","黜","黝","點","黟","黠","黡","黢","黣","黤","黥","黦","黧","黨","黩","黪","黫","黬","黭","黮","黯","黰","黱",
    "黲","黳","黴","黵","黶","黷","黸","黹","黺","黻","黼","黽","黾","黿","龀","龁","龂","龃","龄","龅","龆","龇","龈",
    "龉","龊","龋","龌","龍","龎","龏","龐","龑","龒","龓","龔","龕","龖","龗","龘","龙","龚","龛","龜","龝","龞","龟",
    "龠","龡","龢","龣","龤","龥","龦","龧","龨","龩","龪","龫","龬","龭","龮","龯","龰","龱","龲","龳","龴","龵","龶",
    "龷","龸","龹","龺","龻","龼","龽","龾","龿","鿀","鿁","鿂","鿃","鿄","鿅","鿆","鿇","鿈","鿉","鿊","鿋","鿌","鿍",
    "鿎","鿏","鿐","鿑","鿒","鿓","鿔","鿕","鿖","鿗","鿘","鿙","鿚","鿛","鿜","鿝","鿞","鿟","鿠","鿡","鿢","鿣","鿤",
    "鿥","鿦","鿧","鿨","鿩","鿪","鿫","鿬","鿭","鿮","鿯","鿰","鿱","鿲","鿳","鿴","鿵","鿶","鿷","鿸","鿹","鿺","鿻",
    "鿼","鿽","鿾","鿿","ꂀ","ꂁ","ꂂ","ꂃ","ꂄ","ꂅ","ꂆ","ꂇ","ꂈ","ꂉ","ꂊ","ꂋ","ꂌ","ꂍ","ꂎ","ꂏ","ꂐ","ꂑ","ꂒ",
    "ꂓ","ꂔ","ꂕ","ꂖ","ꂗ","ꂘ","ꂙ","ꂚ","ꂛ","ꂜ","ꂝ","ꂞ","ꂟ","ꂠ","ꂡ","ꂢ","ꂣ","ꂤ","ꂥ","ꂦ","ꂧ","ꂨ","ꂩ",
    "ꂪ","ꂫ","ꂬ","ꂭ","ꂮ","ꂯ","ꂰ","ꂱ","ꂲ","ꂳ","ꂴ","ꂵ","ꂶ","ꂷ","ꂸ","ꂹ","ꂺ","ꂻ","ꂼ","ꂽ","ꂾ","ꂿ","ꃀ",
    "ꃁ","ꃂ","ꃃ","ꃄ","ꃅ","ꃆ","ꃇ","ꃈ","ꃉ","ꃊ","ꃋ","ꃌ","ꃍ","ꃎ","ꃏ","ꃐ","ꃑ","ꃒ","ꃓ","ꃔ","ꃕ","ꃖ","ꃗ",
    "ꃘ","ꃙ","ꃚ","ꃛ","ꃜ","ꃝ","ꃞ","ꃟ","ꃠ","ꃡ","ꃢ","ꃣ","ꃤ","ꃥ","ꃦ","ꃧ","ꃨ","ꃩ","ꃪ","ꃫ","ꃬ","ꃭ","ꃮ",
    "ꃯ","ꃰ","ꃱ","ꃲ","ꃳ","ꃴ","ꃵ","ꃶ","ꃷ","ꃸ","ꃹ","ꃺ","ꃻ","ꃼ","ꃽ","ꃾ","ꃿ","ꆀ","ꆁ","ꆂ","ꆃ","ꆄ","ꆅ",
    "ꆆ","ꆇ","ꆈ","ꆉ","ꆊ","ꆋ","ꆌ","ꆍ","ꆎ","ꆏ","ꆐ","ꆑ","ꆒ","ꆓ","ꆔ","ꆕ","ꆖ","ꆗ","ꆘ","ꆙ","ꆚ","ꆛ","ꆜ",
    "ꆝ","ꆞ","ꆟ","ꆠ","ꆡ","ꆢ","ꆣ","ꆤ","ꆥ","ꆦ","ꆧ","ꆨ","ꆩ","ꆪ","ꆫ","ꆬ","ꆭ","ꆮ","ꆯ","ꆰ","ꆱ","ꆲ","ꆳ",
    "ꆴ","ꆵ","ꆶ","ꆷ","ꆸ","ꆹ","ꆺ","ꆻ","ꆼ","ꆽ","ꆾ","ꆿ","ꇀ","ꇁ","ꇂ","ꇃ","ꇄ","ꇅ","ꇆ","ꇇ","ꇈ","ꇉ","ꇊ",
    "ꇋ","ꇌ","ꇍ","ꇎ","ꇏ","ꇐ","ꇑ","ꇒ","ꇓ","ꇔ","ꇕ","ꇖ","ꇗ","ꇘ","ꇙ","ꇚ","ꇛ","ꇜ","ꇝ","ꇞ","ꇟ","ꇠ","ꇡ",
    "ꇢ","ꇣ","ꇤ","ꇥ","ꇦ","ꇧ","ꇨ","ꇩ","ꇪ","ꇫ","ꇬ","ꇭ","ꇮ","ꇯ","ꇰ","ꇱ","ꇲ","ꇳ","ꇴ","ꇵ","ꇶ","ꇷ","ꇸ",
    "ꇹ","ꇺ","ꇻ","ꇼ","ꇽ","ꇾ","ꇿ","ꊀ","ꊁ","ꊂ","ꊃ","ꊄ","ꊅ","ꊆ","ꊇ","ꊈ","ꊉ","ꊊ","ꊋ","ꊌ","ꊍ","ꊎ","ꊏ",
    "ꊐ","ꊑ","ꊒ","ꊓ","ꊔ","ꊕ","ꊖ","ꊗ","ꊘ","ꊙ","ꊚ","ꊛ","ꊜ","ꊝ","ꊞ","ꊟ","ꊠ","ꊡ","ꊢ","ꊣ","ꊤ","ꊥ","ꊦ",
    "ꊧ","ꊨ","ꊩ","ꊪ","ꊫ","ꊬ","ꊭ","ꊮ","ꊯ","ꊰ","ꊱ","ꊲ","ꊳ","ꊴ","ꊵ","ꊶ","ꊷ","ꊸ","ꊹ","ꊺ","ꊻ","ꊼ","ꊽ",
    "ꊾ","ꊿ","ꋀ","ꋁ","ꋂ","ꋃ","ꋄ","ꋅ","ꋆ","ꋇ","ꋈ","ꋉ","ꋊ","ꋋ","ꋌ","ꋍ","ꋎ","ꋏ","ꋐ","ꋑ","ꋒ","ꋓ","ꋔ",
    "ꋕ","ꋖ","ꋗ","ꋘ","ꋙ","ꋚ","ꋛ","ꋜ","ꋝ","ꋞ","ꋟ","ꋠ","ꋡ","ꋢ","ꋣ","ꋤ","ꋥ","ꋦ","ꋧ","ꋨ","ꋩ","ꋪ","ꋫ",
    "ꋬ","ꋭ","ꋮ","ꋯ","ꋰ","ꋱ","ꋲ","ꋳ","ꋴ","ꋵ","ꋶ","ꋷ","ꋸ","ꋹ","ꋺ","ꋻ","ꋼ","ꋽ","ꋾ","ꋿ","ꎀ","ꎁ","ꎂ",
    "ꎃ","ꎄ","ꎅ","ꎆ","ꎇ","ꎈ","ꎉ","ꎊ","ꎋ","ꎌ","ꎍ","ꎎ","ꎏ","ꎐ","ꎑ","ꎒ","ꎓ","ꎔ","ꎕ","ꎖ","ꎗ","ꎘ","ꎙ",
    "ꎚ","ꎛ","ꎜ","ꎝ","ꎞ","ꎟ","ꎠ","ꎡ","ꎢ","ꎣ","ꎤ","ꎥ","ꎦ","ꎧ","ꎨ","ꎩ","ꎪ","ꎫ","ꎬ","ꎭ","ꎮ","ꎯ","ꎰ",
    "ꎱ","ꎲ","ꎳ","ꎴ","ꎵ","ꎶ","ꎷ","ꎸ","ꎹ","ꎺ","ꎻ","ꎼ","ꎽ","ꎾ","ꎿ","ꏀ","ꏁ","ꏂ","ꏃ","ꏄ","ꏅ","ꏆ","ꏇ",
    "ꏈ","ꏉ","ꏊ","ꏋ","ꏌ","ꏍ","ꏎ","ꏏ","ꏐ","ꏑ","ꏒ","ꏓ","ꏔ","ꏕ","ꏖ","ꏗ","ꏘ","ꏙ","ꏚ","ꏛ","ꏜ","ꏝ","ꏞ",
    "ꏟ","ꏠ","ꏡ","ꏢ","ꏣ","ꏤ","ꏥ","ꏦ","ꏧ","ꏨ","ꏩ","ꏪ","ꏫ","ꏬ","ꏭ","ꏮ","ꏯ","ꏰ","ꏱ","ꏲ","ꏳ","ꏴ","ꏵ",
    "ꏶ","ꏷ","ꏸ","ꏹ","ꏺ","ꏻ","ꏼ","ꏽ","ꏾ","ꏿ","ꒀ","ꒁ","ꒂ","ꒃ","ꒄ","ꒅ","ꒆ","ꒇ","ꒈ","ꒉ","ꒊ","ꒋ","ꒌ",
    "꒍","꒎","꒏","꒐","꒑","꒒","꒓","꒔","꒕","꒖","꒗","꒘","꒙","꒚","꒛","꒜","꒝","꒞","꒟","꒠","꒡","꒢","꒣",
    "꒤","꒥","꒦","꒧","꒨","꒩","꒪","꒫","꒬","꒭","꒮","꒯","꒰","꒱","꒲","꒳","꒴","꒵","꒶","꒷","꒸","꒹","꒺",
    "꒻","꒼","꒽","꒾","꒿","꓀","꓁","꓂","꓃","꓄","꓅","꓆","꓇","꓈","꓉","꓊","꓋","꓌","꓍","꓎","꓏","ꓐ","ꓑ",
    "ꓒ","ꓓ","ꓔ","ꓕ","ꓖ","ꓗ","ꓘ","ꓙ","ꓚ","ꓛ","ꓜ","ꓝ","ꓞ","ꓟ","ꓠ","ꓡ","ꓢ","ꓣ","ꓤ","ꓥ","ꓦ","ꓧ","ꓨ",
    "ꓩ","ꓪ","ꓫ","ꓬ","ꓭ","ꓮ","ꓯ","ꓰ","ꓱ","ꓲ","ꓳ","ꓴ","ꓵ","ꓶ","ꓷ","ꓸ","ꓹ","ꓺ","ꓻ","ꓼ","ꓽ","꓾","꓿",
    "ꖀ","ꖁ","ꖂ","ꖃ","ꖄ","ꖅ","ꖆ","ꖇ","ꖈ","ꖉ","ꖊ","ꖋ","ꖌ","ꖍ","ꖎ","ꖏ","ꖐ","ꖑ","ꖒ","ꖓ","ꖔ","ꖕ","ꖖ",
    "ꖗ","ꖘ","ꖙ","ꖚ","ꖛ","ꖜ","ꖝ","ꖞ","ꖟ","ꖠ","ꖡ","ꖢ","ꖣ","ꖤ","ꖥ","ꖦ","ꖧ","ꖨ","ꖩ","ꖪ","ꖫ","ꖬ","ꖭ",
    "ꖮ","ꖯ","ꖰ","ꖱ","ꖲ","ꖳ","ꖴ","ꖵ","ꖶ","ꖷ","ꖸ","ꖹ","ꖺ","ꖻ","ꖼ","ꖽ","ꖾ","ꖿ","ꗀ","ꗁ","ꗂ","ꗃ","ꗄ",
    "ꗅ","ꗆ","ꗇ","ꗈ","ꗉ","ꗊ","ꗋ","ꗌ","ꗍ","ꗎ","ꗏ","ꗐ","ꗑ","ꗒ","ꗓ","ꗔ","ꗕ","ꗖ","ꗗ","ꗘ","ꗙ","ꗚ","ꗛ",
    "ꗜ","ꗝ","ꗞ","ꗟ","ꗠ","ꗡ","ꗢ","ꗣ","ꗤ","ꗥ","ꗦ","ꗧ","ꗨ","ꗩ","ꗪ","ꗫ","ꗬ","ꗭ","ꗮ","ꗯ","ꗰ","ꗱ","ꗲ",
    "ꗳ","ꗴ","ꗵ","ꗶ","ꗷ","ꗸ","ꗹ","ꗺ","ꗻ","ꗼ","ꗽ","ꗾ","ꗿ","Ꚁ","ꚁ","Ꚃ","ꚃ","Ꚅ","ꚅ","Ꚇ","ꚇ","Ꚉ","ꚉ",
    "Ꚋ","ꚋ","Ꚍ","ꚍ","Ꚏ","ꚏ","Ꚑ","ꚑ","Ꚓ","ꚓ","Ꚕ","ꚕ","Ꚗ","ꚗ","Ꚙ","ꚙ","Ꚛ","ꚛ","ꚜ","ꚝ","ꚞ","ꚟ","ꚠ",
    "ꚡ","ꚢ","ꚣ","ꚤ","ꚥ","ꚦ","ꚧ","ꚨ","ꚩ","ꚪ","ꚫ","ꚬ","ꚭ","ꚮ","ꚯ","ꚰ","ꚱ","ꚲ","ꚳ","ꚴ","ꚵ","ꚶ","ꚷ",
    "ꚸ","ꚹ","ꚺ","ꚻ","ꚼ","ꚽ","ꚾ","ꚿ","ꛀ","ꛁ","ꛂ","ꛃ","ꛄ","ꛅ","ꛆ","ꛇ","ꛈ","ꛉ","ꛊ","ꛋ","ꛌ","ꛍ","ꛎ",
    "ꛏ","ꛐ","ꛑ","ꛒ","ꛓ","ꛔ","ꛕ","ꛖ","ꛗ","ꛘ","ꛙ","ꛚ","ꛛ","ꛜ","ꛝ","ꛞ","ꛟ","ꛠ","ꛡ","ꛢ","ꛣ","ꛤ","ꛥ",
    "ꛦ","ꛧ","ꛨ","ꛩ","ꛪ","ꛫ","ꛬ","ꛭ","ꛮ","ꛯ","꛰","꛱","꛲","꛳","꛴","꛵","꛶","꛷","꛸","꛹","꛺","꛻","꛼",
    "꛽","꛾","꛿","Ꞁ","ꞁ","Ꞃ","ꞃ","Ꞅ","ꞅ","Ꞇ","ꞇ","ꞈ","꞉","꞊","Ꞌ","ꞌ","Ɥ","ꞎ","ꞏ","Ꞑ","ꞑ","Ꞓ","ꞓ",
    "ꞔ","ꞕ","Ꞗ","ꞗ","Ꞙ","ꞙ","Ꞛ","ꞛ","Ꞝ","ꞝ","Ꞟ","ꞟ","Ꞡ","ꞡ","Ꞣ","ꞣ","Ꞥ","ꞥ","Ꞧ","ꞧ","Ꞩ","ꞩ","Ɦ",
    "Ɜ","Ɡ","Ɬ","Ɪ","ꞯ","Ʞ","Ʇ","Ʝ","Ꭓ","Ꞵ","ꞵ","Ꞷ","ꞷ","Ꞹ","ꞹ","Ꞻ","ꞻ","Ꞽ","ꞽ","Ꞿ","ꞿ","Ꟁ","ꟁ",
    "Ꟃ","ꟃ","Ꞔ","Ʂ","Ᶎ","Ꟈ","ꟈ","Ꟊ","ꟊ","Ɤ","Ꟍ","ꟍ","꟎","꟏","Ꟑ","ꟑ","꟒","ꟓ","꟔","ꟕ","Ꟗ","ꟗ","Ꟙ",
    "ꟙ","Ꟛ","ꟛ","Ƛ","꟝","꟞","꟟","꟠","꟡","꟢","꟣","꟤","꟥","꟦","꟧","꟨","꟩","꟪","꟫","꟬","꟭","꟮","꟯",
    "꟰","꟱","ꟲ","ꟳ","ꟴ","Ꟶ","ꟶ","ꟷ","ꟸ","ꟹ","ꟺ","ꟻ","ꟼ","ꟽ","ꟾ","ꟿ","ꢀ","ꢁ","ꢂ","ꢃ","ꢄ","ꢅ","ꢆ",
    "ꢇ","ꢈ","ꢉ","ꢊ","ꢋ","ꢌ","ꢍ","ꢎ","ꢏ","ꢐ","ꢑ","ꢒ","ꢓ","ꢔ","ꢕ","ꢖ","ꢗ","ꢘ","ꢙ","ꢚ","ꢛ","ꢜ","ꢝ",
    "ꢞ","ꢟ","ꢠ","ꢡ","ꢢ","ꢣ","ꢤ","ꢥ","ꢦ","ꢧ","ꢨ","ꢩ","ꢪ","ꢫ","ꢬ","ꢭ","ꢮ","ꢯ","ꢰ","ꢱ","ꢲ","ꢳ","ꢴ",
    "ꢵ","ꢶ","ꢷ","ꢸ","ꢹ","ꢺ","ꢻ","ꢼ","ꢽ","ꢾ","ꢿ","ꣀ","ꣁ","ꣂ","ꣃ","꣄","ꣅ","꣆","꣇","꣈","꣉","꣊","꣋",
    "꣌","꣍","꣎","꣏","꣐","꣑","꣒","꣓","꣔","꣕","꣖","꣗","꣘","꣙","꣚","꣛","꣜","꣝","꣞","꣟","꣠","꣡","꣢",
    "꣣","꣤","꣥","꣦","꣧","꣨","꣩","꣪","꣫","꣬","꣭","꣮","꣯","꣰","꣱","ꣲ","ꣳ","ꣴ","ꣵ","ꣶ","ꣷ","꣸","꣹",
    "꣺","ꣻ","꣼","ꣽ","ꣾ","ꣿ","ꦀ","ꦁ","ꦂ","ꦃ","ꦄ","ꦅ","ꦆ","ꦇ","ꦈ","ꦉ","ꦊ","ꦋ","ꦌ","ꦍ","ꦎ","ꦏ","ꦐ",
    "ꦑ","ꦒ","ꦓ","ꦔ","ꦕ","ꦖ","ꦗ","ꦘ","ꦙ","ꦚ","ꦛ","ꦜ","ꦝ","ꦞ","ꦟ","ꦠ","ꦡ","ꦢ","ꦣ","ꦤ","ꦥ","ꦦ","ꦧ",
    "ꦨ","ꦩ","ꦪ","ꦫ","ꦬ","ꦭ","ꦮ","ꦯ","ꦰ","ꦱ","ꦲ","꦳","ꦴ","ꦵ","ꦶ","ꦷ","ꦸ","ꦹ","ꦺ","ꦻ","ꦼ","ꦽ","ꦾ",
    "ꦿ","꧀","꧁","꧂","꧃","꧄","꧅","꧆","꧇","꧈","꧉","꧊","꧋","꧌","꧍","꧎","ꧏ","꧐","꧑","꧒","꧓","꧔","꧕",
    "꧖","꧗","꧘","꧙","꧚","꧛","꧜","꧝","꧞","꧟","ꧠ","ꧡ","ꧢ","ꧣ","ꧤ","ꧥ","ꧦ","ꧧ","ꧨ","ꧩ","ꧪ","ꧫ","ꧬ",
    "ꧭ","ꧮ","ꧯ","꧰","꧱","꧲","꧳","꧴","꧵","꧶","꧷","꧸","꧹","ꧺ","ꧻ","ꧼ","ꧽ","ꧾ","꧿","ꪀ","ꪁ","ꪂ","ꪃ",
    "ꪄ","ꪅ","ꪆ","ꪇ","ꪈ","ꪉ","ꪊ","ꪋ","ꪌ","ꪍ","ꪎ","ꪏ","ꪐ","ꪑ","ꪒ","ꪓ","ꪔ","ꪕ","ꪖ","ꪗ","ꪘ","ꪙ","ꪚ",
    "ꪛ","ꪜ","ꪝ","ꪞ","ꪟ","ꪠ","ꪡ","ꪢ","ꪣ","ꪤ","ꪥ","ꪦ","ꪧ","ꪨ","ꪩ","ꪪ","ꪫ","ꪬ","ꪭ","ꪮ","ꪯ","ꪰ","ꪱ",
    "ꪲ","ꪳ","ꪴ","ꪵ","ꪶ","ꪷ","ꪸ","ꪹ","ꪺ","ꪻ","ꪼ","ꪽ","ꪾ","꪿","ꫀ","꫁","ꫂ","꫃","꫄","꫅","꫆","꫇","꫈",
    "꫉","꫊","꫋","꫌","꫍","꫎","꫏","꫐","꫑","꫒","꫓","꫔","꫕","꫖","꫗","꫘","꫙","꫚","ꫛ","ꫜ","ꫝ","꫞","꫟",
    "ꫠ","ꫡ","ꫢ","ꫣ","ꫤ","ꫥ","ꫦ","ꫧ","ꫨ","ꫩ","ꫪ","ꫫ","ꫬ","ꫭ","ꫮ","ꫯ","꫰","꫱","ꫲ","ꫳ","ꫴ","ꫵ","꫶",
    "꫷","꫸","꫹","꫺","꫻","꫼","꫽","꫾","꫿","ꮀ","ꮁ","ꮂ","ꮃ","ꮄ","ꮅ","ꮆ","ꮇ","ꮈ","ꮉ","ꮊ","ꮋ","ꮌ","ꮍ",
    "ꮎ","ꮏ","ꮐ","ꮑ","ꮒ","ꮓ","ꮔ","ꮕ","ꮖ","ꮗ","ꮘ","ꮙ","ꮚ","ꮛ","ꮜ","ꮝ","ꮞ","ꮟ","ꮠ","ꮡ","ꮢ","ꮣ","ꮤ",
    "ꮥ","ꮦ","ꮧ","ꮨ","ꮩ","ꮪ","ꮫ","ꮬ","ꮭ","ꮮ","ꮯ","ꮰ","ꮱ","ꮲ","ꮳ","ꮴ","ꮵ","ꮶ","ꮷ","ꮸ","ꮹ","ꮺ","ꮻ",
    "ꮼ","ꮽ","ꮾ","ꮿ","ꯀ","ꯁ","ꯂ","ꯃ","ꯄ","ꯅ","ꯆ","ꯇ","ꯈ","ꯉ","ꯊ","ꯋ","ꯌ","ꯍ","ꯎ","ꯏ","ꯐ","ꯑ","ꯒ",
    "ꯓ","ꯔ","ꯕ","ꯖ","ꯗ","ꯘ","ꯙ","ꯚ","ꯛ","ꯜ","ꯝ","ꯞ","ꯟ","ꯠ","ꯡ","ꯢ","ꯣ","ꯤ","ꯥ","ꯦ","ꯧ","ꯨ","ꯩ",
    "ꯪ","꯫","꯬","꯭","꯮","꯯","꯰","꯱","꯲","꯳","꯴","꯵","꯶","꯷","꯸","꯹","꯺","꯻","꯼","꯽","꯾","꯿","검",
    "겁","겂","것","겄","겅","겆","겇","겈","겉","겊","겋","게","겍","겎","겏","겐","겑","겒","겓","겔","겕","겖","겗",
    "겘","겙","겚","겛","겜","겝","겞","겟","겠","겡","겢","겣","겤","겥","겦","겧","겨","격","겪","겫","견","겭","겮",
    "겯","결","겱","겲","겳","겴","겵","겶","겷","겸","겹","겺","겻","겼","경","겾","겿","곀","곁","곂","곃","계","곅",
    "곆","곇","곈","곉","곊","곋","곌","곍","곎","곏","곐","곑","곒","곓","곔","곕","곖","곗","곘","곙","곚","곛","곜",
    "곝","곞","곟","고","곡","곢","곣","곤","곥","곦","곧","골","곩","곪","곫","곬","곭","곮","곯","곰","곱","곲","곳",
    "곴","공","곶","곷","곸","곹","곺","곻","과","곽","곾","곿","궀","궁","궂","궃","궄","궅","궆","궇","궈","궉","궊",
    "궋","권","궍","궎","궏","궐","궑","궒","궓","궔","궕","궖","궗","궘","궙","궚","궛","궜","궝","궞","궟","궠","궡",
    "궢","궣","궤","궥","궦","궧","궨","궩","궪","궫","궬","궭","궮","궯","궰","궱","궲","궳","궴","궵","궶","궷","궸",
    "궹","궺","궻","궼","궽","궾","궿","귀","귁","귂","귃","귄","귅","귆","귇","귈","귉","귊","귋","귌","귍","귎","귏",
    "귐","귑","귒","귓","귔","귕","귖","귗","귘","귙","귚","귛","규","귝","귞","귟","균","귡","귢","귣","귤","귥","귦",
    "귧","귨","귩","귪","귫","귬","귭","귮","귯","귰","귱","귲","귳","귴","귵","귶","귷","그","극","귺","귻","근","귽",
    "귾","귿","꺀","꺁","꺂","꺃","꺄","꺅","꺆","꺇","꺈","꺉","꺊","꺋","꺌","꺍","꺎","꺏","꺐","꺑","꺒","꺓","꺔",
    "꺕","꺖","꺗","꺘","꺙","꺚","꺛","꺜","꺝","꺞","꺟","꺠","꺡","꺢","꺣","꺤","꺥","꺦","꺧","꺨","꺩","꺪","꺫",
    "꺬","꺭","꺮","꺯","꺰","꺱","꺲","꺳","꺴","꺵","꺶","꺷","꺸","꺹","꺺","꺻","꺼","꺽","꺾","꺿","껀","껁","껂",
    "껃","껄","껅","껆","껇","껈","껉","껊","껋","껌","껍","껎","껏","껐","껑","껒","껓","껔","껕","껖","껗","께","껙",
    "껚","껛","껜","껝","껞","껟","껠","껡","껢","껣","껤","껥","껦","껧","껨","껩","껪","껫","껬","껭","껮","껯","껰",
    "껱","껲","껳","껴","껵","껶","껷","껸","껹","껺","껻","껼","껽","껾","껿","꾀","꾁","꾂","꾃","꾄","꾅","꾆","꾇",
    "꾈","꾉","꾊","꾋","꾌","꾍","꾎","꾏","꾐","꾑","꾒","꾓","꾔","꾕","꾖","꾗","꾘","꾙","꾚","꾛","꾜","꾝","꾞",
    "꾟","꾠","꾡","꾢","꾣","꾤","꾥","꾦","꾧","꾨","꾩","꾪","꾫","꾬","꾭","꾮","꾯","꾰","꾱","꾲","꾳","꾴","꾵",
    "꾶","꾷","꾸","꾹","꾺","꾻","꾼","꾽","꾾","꾿","꿀","꿁","꿂","꿃","꿄","꿅","꿆","꿇","꿈","꿉","꿊","꿋","꿌",
    "꿍","꿎","꿏","꿐","꿑","꿒","꿓","꿔","꿕","꿖","꿗","꿘","꿙","꿚","꿛","꿜","꿝","꿞","꿟","꿠","꿡","꿢","꿣",
    "꿤","꿥","꿦","꿧","꿨","꿩","꿪","꿫","꿬","꿭","꿮","꿯","꿰","꿱","꿲","꿳","꿴","꿵","꿶","꿷","꿸","꿹","꿺",
    "꿻","꿼","꿽","꿾","꿿","낀","낁","낂","낃","낄","낅","낆","낇","낈","낉","낊","낋","낌","낍","낎","낏","낐","낑",
    "낒","낓","낔","낕","낖","낗","나","낙","낚","낛","난","낝","낞","낟","날","낡","낢","낣","낤","낥","낦","낧","남",
    "납","낪","낫","났","낭","낮","낯","낰","낱","낲","낳","내","낵","낶","낷","낸","낹","낺","낻","낼","낽","낾","낿",
    "냀","냁","냂","냃","냄","냅","냆","냇","냈","냉","냊","냋","냌","냍","냎","냏","냐","냑","냒","냓","냔","냕","냖",
    "냗","냘","냙","냚","냛","냜","냝","냞","냟","냠","냡","냢","냣","냤","냥","냦","냧","냨","냩","냪","냫","냬","냭",
    "냮","냯","냰","냱","냲","냳","냴","냵","냶","냷","냸","냹","냺","냻","냼","냽","냾","냿","놀","놁","놂","놃","놄",
    "놅","놆","놇","놈","놉","놊","놋","놌","농","놎","놏","놐","놑","높","놓","놔","놕","놖","놗","놘","놙","놚","놛",
    "놜","놝","놞","놟","놠","놡","놢","놣","놤","놥","놦","놧","놨","놩","놪","놫","놬","놭","놮","놯","놰","놱","놲",
    "놳","놴","놵","놶","놷","놸","놹","놺","놻","놼","놽","놾","놿","뇀","뇁","뇂","뇃","뇄","뇅","뇆","뇇","뇈","뇉",
    "뇊","뇋","뇌","뇍","뇎","뇏","뇐","뇑","뇒","뇓","뇔","뇕","뇖","뇗","뇘","뇙","뇚","뇛","뇜","뇝","뇞","뇟","뇠",
    "뇡","뇢","뇣","뇤","뇥","뇦","뇧","뇨","뇩","뇪","뇫","뇬","뇭","뇮","뇯","뇰","뇱","뇲","뇳","뇴","뇵","뇶","뇷",
    "뇸","뇹","뇺","뇻","뇼","뇽","뇾","뇿","늀","늁","늂","늃","늄","늅","늆","늇","늈","늉","늊","늋","늌","늍","늎",
    "늏","느","늑","늒","늓","는","늕","늖","늗","늘","늙","늚","늛","늜","늝","늞","늟","늠","늡","늢","늣","늤","능",
    "늦","늧","늨","늩","늪","늫","늬","늭","늮","늯","늰","늱","늲","늳","늴","늵","늶","늷","늸","늹","늺","늻","늼",
    "늽","늾","늿","닀","닁","닂","닃","닄","닅","닆","닇","니","닉","닊","닋","닌","닍","닎","닏","닐","닑","닒","닓",
    "닔","닕","닖","닗","님","닙","닚","닛","닜","닝","닞","닟","닠","닡","닢","닣","다","닥","닦","닧","단","닩","닪",
    "닫","달","닭","닮","닯","닰","닱","닲","닳","담","답","닶","닷","닸","당","닺","닻","닼","닽","닾","닿","뎀","뎁",
    "뎂","뎃","뎄","뎅","뎆","뎇","뎈","뎉","뎊","뎋","뎌","뎍","뎎","뎏","뎐","뎑","뎒","뎓","뎔","뎕","뎖","뎗","뎘",
    "뎙","뎚","뎛","뎜","뎝","뎞","뎟","뎠","뎡","뎢","뎣","뎤","뎥","뎦","뎧","뎨","뎩","뎪","뎫","뎬","뎭","뎮","뎯",
    "뎰","뎱","뎲","뎳","뎴","뎵","뎶","뎷","뎸","뎹","뎺","뎻","뎼","뎽","뎾","뎿","돀","돁","돂","돃","도","독","돆",
    "돇","돈","돉","돊","돋","돌","돍","돎","돏","돐","돑","돒","돓","돔","돕","돖","돗","돘","동","돚","돛","돜","돝",
    "돞","돟","돠","돡","돢","돣","돤","돥","돦","돧","돨","돩","돪","돫","돬","돭","돮","돯","돰","돱","돲","돳","돴",
    "돵","돶","돷","돸","돹","돺","돻","돼","돽","돾","돿","뒀","뒁","뒂","뒃","뒄","뒅","뒆","뒇","뒈","뒉","뒊","뒋",
    "뒌","뒍","뒎","뒏","뒐","뒑","뒒","뒓","뒔","뒕","뒖","뒗","뒘","뒙","뒚","뒛","뒜","뒝","뒞","뒟","뒠","뒡","뒢",
    "뒣","뒤","뒥","뒦","뒧","뒨","뒩","뒪","뒫","뒬","뒭","뒮","뒯","뒰","뒱","뒲","뒳","뒴","뒵","뒶","뒷","뒸","뒹",
    "뒺","뒻","뒼","뒽","뒾","뒿","듀","듁","듂","듃","듄","듅","듆","듇","듈","듉","듊","듋","듌","듍","듎","듏","듐",
    "듑","듒","듓","듔","듕","듖","듗","듘","듙","듚","듛","드","득","듞","듟","든","듡","듢","듣","들","듥","듦","듧",
    "듨","듩","듪","듫","듬","듭","듮","듯","듰","등","듲","듳","듴","듵","듶","듷","듸","듹","듺","듻","듼","듽","듾",
    "듿","떀","떁","떂","떃","떄","떅","떆","떇","떈","떉","떊","떋","떌","떍","떎","떏","떐","떑","떒","떓","떔","떕",
    "떖","떗","떘","떙","떚","떛","떜","떝","떞","떟","떠","떡","떢","떣","떤","떥","떦","떧","떨","떩","떪","떫","떬",
    "떭","떮","떯","떰","떱","떲","떳","떴","떵","떶","떷","떸","떹","떺","떻","떼","떽","떾","떿","뗀","뗁","뗂","뗃",
    "뗄","뗅","뗆","뗇","뗈","뗉","뗊","뗋","뗌","뗍","뗎","뗏","뗐","뗑","뗒","뗓","뗔","뗕","뗖","뗗","뗘","뗙","뗚",
    "뗛","뗜","뗝","뗞","뗟","뗠","뗡","뗢","뗣","뗤","뗥","뗦","뗧","뗨","뗩","뗪","뗫","뗬","뗭","뗮","뗯","뗰","뗱",
    "뗲","뗳","뗴","뗵","뗶","뗷","뗸","뗹","뗺","뗻","뗼","뗽","뗾","뗿","뚀","뚁","뚂","뚃","뚄","뚅","뚆","뚇","뚈",
    "뚉","뚊","뚋","뚌","뚍","뚎","뚏","뚐","뚑","뚒","뚓","뚔","뚕","뚖","뚗","뚘","뚙","뚚","뚛","뚜","뚝","뚞","뚟",
    "뚠","뚡","뚢","뚣","뚤","뚥","뚦","뚧","뚨","뚩","뚪","뚫","뚬","뚭","뚮","뚯","뚰","뚱","뚲","뚳","뚴","뚵","뚶",
    "뚷","뚸","뚹","뚺","뚻","뚼","뚽","뚾","뚿","뛀","뛁","뛂","뛃","뛄","뛅","뛆","뛇","뛈","뛉","뛊","뛋","뛌","뛍",
    "뛎","뛏","뛐","뛑","뛒","뛓","뛔","뛕","뛖","뛗","뛘","뛙","뛚","뛛","뛜","뛝","뛞","뛟","뛠","뛡","뛢","뛣","뛤",
    "뛥","뛦","뛧","뛨","뛩","뛪","뛫","뛬","뛭","뛮","뛯","뛰","뛱","뛲","뛳","뛴","뛵","뛶","뛷","뛸","뛹","뛺","뛻",
    "뛼","뛽","뛾","뛿","란","랁","랂","랃","랄","랅","랆","랇","랈","랉","랊","랋","람","랍","랎","랏","랐","랑","랒",
    "랓","랔","랕","랖","랗","래","랙","랚","랛","랜","랝","랞","랟","랠","랡","랢","랣","랤","랥","랦","랧","램","랩",
    "랪","랫","랬","랭","랮","랯","랰","랱","랲","랳","랴","략","랶","랷","랸","랹","랺","랻","랼","랽","랾","랿","럀",
    "럁","럂","럃","럄","럅","럆","럇","럈","량","럊","럋","럌","럍","럎","럏","럐","럑","럒","럓","럔","럕","럖","럗",
    "럘","럙","럚","럛","럜","럝","럞","럟","럠","럡","럢","럣","럤","럥","럦","럧","럨","럩","럪","럫","러","럭","럮",
    "럯","런","럱","럲","럳","럴","럵","럶","럷","럸","럹","럺","럻","럼","럽","럾","럿","뢀","뢁","뢂","뢃","뢄","뢅",
    "뢆","뢇","뢈","뢉","뢊","뢋","뢌","뢍","뢎","뢏","뢐","뢑","뢒","뢓","뢔","뢕","뢖","뢗","뢘","뢙","뢚","뢛","뢜",
    "뢝","뢞","뢟","뢠","뢡","뢢","뢣","뢤","뢥","뢦","뢧","뢨","뢩","뢪","뢫","뢬","뢭","뢮","뢯","뢰","뢱","뢲","뢳",
    "뢴","뢵","뢶","뢷","뢸","뢹","뢺","뢻","뢼","뢽","뢾","뢿","룀","룁","룂","룃","룄","룅","룆","룇","룈","룉","룊",
    "룋","료","룍","룎","룏","룐","룑","룒","룓","룔","룕","룖","룗","룘","룙","룚","룛","룜","룝","룞","룟","룠","룡",
    "룢","룣","룤","룥","룦","룧","루","룩","룪","룫","룬","룭","룮","룯","룰","룱","룲","룳","룴","룵","룶","룷","룸",
    "룹","룺","룻","룼","룽","룾","룿","릀","릁","릂","릃","름","릅","릆","릇","릈","릉","릊","릋","릌","릍","릎","릏",
    "릐","릑","릒","릓","릔","릕","릖","릗","릘","릙","릚","릛","릜","릝","릞","릟","릠","릡","릢","릣","릤","릥","릦",
    "릧","릨","릩","릪","릫","리","릭","릮","릯","린","릱","릲","릳","릴","릵","릶","릷","릸","릹","릺","릻","림","립",
    "릾","릿","맀","링","맂","맃","맄","맅","맆","맇","마","막","맊","맋","만","맍","많","맏","말","맑","맒","맓","맔",
    "맕","맖","맗","맘","맙","맚","맛","맜","망","맞","맟","맠","맡","맢","맣","매","맥","맦","맧","맨","맩","맪","맫",
    "맬","맭","맮","맯","맰","맱","맲","맳","맴","맵","맶","맷","맸","맹","맺","맻","맼","맽","맾","맿","몀","몁","몂",
    "몃","몄","명","몆","몇","몈","몉","몊","몋","몌","몍","몎","몏","몐","몑","몒","몓","몔","몕","몖","몗","몘","몙",
    "몚","몛","몜","몝","몞","몟","몠","몡","몢","몣","몤","몥","몦","몧","모","목","몪","몫","몬","몭","몮","몯","몰",
    "몱","몲","몳","몴","몵","몶","몷","몸","몹","몺","못","몼","몽","몾","몿","뫀","뫁","뫂","뫃","뫄","뫅","뫆","뫇",
    "뫈","뫉","뫊","뫋","뫌","뫍","뫎","뫏","뫐","뫑","뫒","뫓","뫔","뫕","뫖","뫗","뫘","뫙","뫚","뫛","뫜","뫝","뫞",
    "뫟","뫠","뫡","뫢","뫣","뫤","뫥","뫦","뫧","뫨","뫩","뫪","뫫","뫬","뫭","뫮","뫯","뫰","뫱","뫲","뫳","뫴","뫵",
    "뫶","뫷","뫸","뫹","뫺","뫻","뫼","뫽","뫾","뫿","뮀","뮁","뮂","뮃","뮄","뮅","뮆","뮇","뮈","뮉","뮊","뮋","뮌",
    "뮍","뮎","뮏","뮐","뮑","뮒","뮓","뮔","뮕","뮖","뮗","뮘","뮙","뮚","뮛","뮜","뮝","뮞","뮟","뮠","뮡","뮢","뮣",
    "뮤","뮥","뮦","뮧","뮨","뮩","뮪","뮫","뮬","뮭","뮮","뮯","뮰","뮱","뮲","뮳","뮴","뮵","뮶","뮷","뮸","뮹","뮺",
    "뮻","뮼","뮽","뮾","뮿","므","믁","믂","믃","믄","믅","믆","믇","믈","믉","믊","믋","믌","믍","믎","믏","믐","믑",
    "믒","믓","믔","믕","믖","믗","믘","믙","믚","믛","믜","믝","믞","믟","믠","믡","믢","믣","믤","믥","믦","믧","믨",
    "믩","믪","믫","믬","믭","믮","믯","믰","믱","믲","믳","믴","믵","믶","믷","미","믹","믺","믻","민","믽","믾","믿",
    "벀","벁","벂","벃","버","벅","벆","벇","번","벉","벊","벋","벌","벍","벎","벏","벐","벑","벒","벓","범","법","벖",
    "벗","벘","벙","벚","벛","벜","벝","벞","벟","베","벡","벢","벣","벤","벥","벦","벧","벨","벩","벪","벫","벬","벭",
    "벮","벯","벰","벱","벲","벳","벴","벵","벶","벷","벸","벹","벺","벻","벼","벽","벾","벿","변","볁","볂","볃","별",
    "볅","볆","볇","볈","볉","볊","볋","볌","볍","볎","볏","볐","병","볒","볓","볔","볕","볖","볗","볘","볙","볚","볛",
    "볜","볝","볞","볟","볠","볡","볢","볣","볤","볥","볦","볧","볨","볩","볪","볫","볬","볭","볮","볯","볰","볱","볲",
    "볳","보","복","볶","볷","본","볹","볺","볻","볼","볽","볾","볿","부","북","붂","붃","분","붅","붆","붇","불","붉",
    "붊","붋","붌","붍","붎","붏","붐","붑","붒","붓","붔","붕","붖","붗","붘","붙","붚","붛","붜","붝","붞","붟","붠",
    "붡","붢","붣","붤","붥","붦","붧","붨","붩","붪","붫","붬","붭","붮","붯","붰","붱","붲","붳","붴","붵","붶","붷",
    "붸","붹","붺","붻","붼","붽","붾","붿","뷀","뷁","뷂","뷃","뷄","뷅","뷆","뷇","뷈","뷉","뷊","뷋","뷌","뷍","뷎",
    "뷏","뷐","뷑","뷒","뷓","뷔","뷕","뷖","뷗","뷘","뷙","뷚","뷛","뷜","뷝","뷞","뷟","뷠","뷡","뷢","뷣","뷤","뷥",
    "뷦","뷧","뷨","뷩","뷪","뷫","뷬","뷭","뷮","뷯","뷰","뷱","뷲","뷳","뷴","뷵","뷶","뷷","뷸","뷹","뷺","뷻","뷼",
    "뷽","뷾","뷿","뺀","뺁","뺂","뺃","뺄","뺅","뺆","뺇","뺈","뺉","뺊","뺋","뺌","뺍","뺎","뺏","뺐","뺑","뺒","뺓",
    "뺔","뺕","뺖","뺗","뺘","뺙","뺚","뺛","뺜","뺝","뺞","뺟","뺠","뺡","뺢","뺣","뺤","뺥","뺦","뺧","뺨","뺩","뺪",
    "뺫","뺬","뺭","뺮","뺯","뺰","뺱","뺲","뺳","뺴","뺵","뺶","뺷","뺸","뺹","뺺","뺻","뺼","뺽","뺾","뺿","뻀","뻁",
    "뻂","뻃","뻄","뻅","뻆","뻇","뻈","뻉","뻊","뻋","뻌","뻍","뻎","뻏","뻐","뻑","뻒","뻓","뻔","뻕","뻖","뻗","뻘",
    "뻙","뻚","뻛","뻜","뻝","뻞","뻟","뻠","뻡","뻢","뻣","뻤","뻥","뻦","뻧","뻨","뻩","뻪","뻫","뻬","뻭","뻮","뻯",
    "뻰","뻱","뻲","뻳","뻴","뻵","뻶","뻷","뻸","뻹","뻺","뻻","뻼","뻽","뻾","뻿","뾀","뾁","뾂","뾃","뾄","뾅","뾆",
    "뾇","뾈","뾉","뾊","뾋","뾌","뾍","뾎","뾏","뾐","뾑","뾒","뾓","뾔","뾕","뾖","뾗","뾘","뾙","뾚","뾛","뾜","뾝",
    "뾞","뾟","뾠","뾡","뾢","뾣","뾤","뾥","뾦","뾧","뾨","뾩","뾪","뾫","뾬","뾭","뾮","뾯","뾰","뾱","뾲","뾳","뾴",
    "뾵","뾶","뾷","뾸","뾹","뾺","뾻","뾼","뾽","뾾","뾿","뿀","뿁","뿂","뿃","뿄","뿅","뿆","뿇","뿈","뿉","뿊","뿋",
    "뿌","뿍","뿎","뿏","뿐","뿑","뿒","뿓","뿔","뿕","뿖","뿗","뿘","뿙","뿚","뿛","뿜","뿝","뿞","뿟","뿠","뿡","뿢",
    "뿣","뿤","뿥","뿦","뿧","뿨","뿩","뿪","뿫","뿬","뿭","뿮","뿯","뿰","뿱","뿲","뿳","뿴","뿵","뿶","뿷","뿸","뿹",
    "뿺","뿻","뿼","뿽","뿾","뿿","삀","삁","삂","삃","삄","삅","삆","삇","삈","삉","삊","삋","삌","삍","삎","삏","삐",
    "삑","삒","삓","삔","삕","삖","삗","삘","삙","삚","삛","삜","삝","삞","삟","삠","삡","삢","삣","삤","삥","삦","삧",
    "삨","삩","삪","삫","사","삭","삮","삯","산","삱","삲","삳","살","삵","삶","삷","삸","삹","삺","삻","삼","삽","삾",
    "삿","샀","상","샂","샃","샄","샅","샆","샇","새","색","샊","샋","샌","샍","샎","샏","샐","샑","샒","샓","샔","샕",
    "샖","샗","샘","샙","샚","샛","샜","생","샞","샟","샠","샡","샢","샣","샤","샥","샦","샧","샨","샩","샪","샫","샬",
    "샭","샮","샯","샰","샱","샲","샳","샴","샵","샶","샷","샸","샹","샺","샻","샼","샽","샾","샿","솀","솁","솂","솃",
    "솄","솅","솆","솇","솈","솉","솊","솋","소","속","솎","솏","손","솑","솒","솓","솔","솕","솖","솗","솘","솙","솚",
    "솛","솜","솝","솞","솟","솠","송","솢","솣","솤","솥","솦","솧","솨","솩","솪","솫","솬","솭","솮","솯","솰","솱",
    "솲","솳","솴","솵","솶","솷","솸","솹","솺","솻","솼","솽","솾","솿","쇀","쇁","쇂","쇃","쇄","쇅","쇆","쇇","쇈",
    "쇉","쇊","쇋","쇌","쇍","쇎","쇏","쇐","쇑","쇒","쇓","쇔","쇕","쇖","쇗","쇘","쇙","쇚","쇛","쇜","쇝","쇞","쇟",
    "쇠","쇡","쇢","쇣","쇤","쇥","쇦","쇧","쇨","쇩","쇪","쇫","쇬","쇭","쇮","쇯","쇰","쇱","쇲","쇳","쇴","쇵","쇶",
    "쇷","쇸","쇹","쇺","쇻","쇼","쇽","쇾","쇿","슀","슁","슂","슃","슄","슅","슆","슇","슈","슉","슊","슋","슌","슍",
    "슎","슏","슐","슑","슒","슓","슔","슕","슖","슗","슘","슙","슚","슛","슜","슝","슞","슟","슠","슡","슢","슣","스",
    "슥","슦","슧","슨","슩","슪","슫","슬","슭","슮","슯","슰","슱","슲","슳","슴","습","슶","슷","슸","승","슺","슻",
    "슼","슽","슾","슿","싀","싁","싂","싃","싄","싅","싆","싇","싈","싉","싊","싋","싌","싍","싎","싏","싐","싑","싒",
    "싓","싔","싕","싖","싗","싘","싙","싚","싛","시","식","싞","싟","신","싡","싢","싣","실","싥","싦","싧","싨","싩",
    "싪","싫","심","십","싮","싯","싰","싱","싲","싳","싴","싵","싶","싷","싸","싹","싺","싻","싼","싽","싾","싿","쎀",
    "쎁","쎂","쎃","쎄","쎅","쎆","쎇","쎈","쎉","쎊","쎋","쎌","쎍","쎎","쎏","쎐","쎑","쎒","쎓","쎔","쎕","쎖","쎗",
    "쎘","쎙","쎚","쎛","쎜","쎝","쎞","쎟","쎠","쎡","쎢","쎣","쎤","쎥","쎦","쎧","쎨","쎩","쎪","쎫","쎬","쎭","쎮",
    "쎯","쎰","쎱","쎲","쎳","쎴","쎵","쎶","쎷","쎸","쎹","쎺","쎻","쎼","쎽","쎾","쎿","쏀","쏁","쏂","쏃","쏄","쏅",
    "쏆","쏇","쏈","쏉","쏊","쏋","쏌","쏍","쏎","쏏","쏐","쏑","쏒","쏓","쏔","쏕","쏖","쏗","쏘","쏙","쏚","쏛","쏜",
    "쏝","쏞","쏟","쏠","쏡","쏢","쏣","쏤","쏥","쏦","쏧","쏨","쏩","쏪","쏫","쏬","쏭","쏮","쏯","쏰","쏱","쏲","쏳",
    "쏴","쏵","쏶","쏷","쏸","쏹","쏺","쏻","쏼","쏽","쏾","쏿","쒀","쒁","쒂","쒃","쒄","쒅","쒆","쒇","쒈","쒉","쒊",
    "쒋","쒌","쒍","쒎","쒏","쒐","쒑","쒒","쒓","쒔","쒕","쒖","쒗","쒘","쒙","쒚","쒛","쒜","쒝","쒞","쒟","쒠","쒡",
    "쒢","쒣","쒤","쒥","쒦","쒧","쒨","쒩","쒪","쒫","쒬","쒭","쒮","쒯","쒰","쒱","쒲","쒳","쒴","쒵","쒶","쒷","쒸",
    "쒹","쒺","쒻","쒼","쒽","쒾","쒿","쓀","쓁","쓂","쓃","쓄","쓅","쓆","쓇","쓈","쓉","쓊","쓋","쓌","쓍","쓎","쓏",
    "쓐","쓑","쓒","쓓","쓔","쓕","쓖","쓗","쓘","쓙","쓚","쓛","쓜","쓝","쓞","쓟","쓠","쓡","쓢","쓣","쓤","쓥","쓦",
    "쓧","쓨","쓩","쓪","쓫","쓬","쓭","쓮","쓯","쓰","쓱","쓲","쓳","쓴","쓵","쓶","쓷","쓸","쓹","쓺","쓻","쓼","쓽",
    "쓾","쓿","얀","얁","얂","얃","얄","얅","얆","얇","얈","얉","얊","얋","얌","얍","얎","얏","얐","양","얒","얓","얔",
    "얕","얖","얗","얘","얙","얚","얛","얜","얝","얞","얟","얠","얡","얢","얣","얤","얥","얦","얧","얨","얩","얪","얫",
    "얬","얭","얮","얯","얰","얱","얲","얳","어","억","얶","얷","언","얹","얺","얻","얼","얽","얾","얿","엀","엁","엂",
    "엃","엄","업","없","엇","었","엉","엊","엋","엌","엍","엎","엏","에","엑","엒","엓","엔","엕","엖","엗","엘","엙",
    "엚","엛","엜","엝","엞","엟","엠","엡","엢","엣","엤","엥","엦","엧","엨","엩","엪","엫","여","역","엮","엯","연",
    "엱","엲","엳","열","엵","엶","엷","엸","엹","엺","엻","염","엽","엾","엿","욀","욁","욂","욃","욄","욅","욆","욇",
    "욈","욉","욊","욋","욌","욍","욎","욏","욐","욑","욒","욓","요","욕","욖","욗","욘","욙","욚","욛","욜","욝","욞",
    "욟","욠","욡","욢","욣","욤","욥","욦","욧","욨","용","욪","욫","욬","욭","욮","욯","우","욱","욲","욳","운","욵",
    "욶","욷","울","욹","욺","욻","욼","욽","욾","욿","움","웁","웂","웃","웄","웅","웆","웇","웈","웉","웊","웋","워",
    "웍","웎","웏","원","웑","웒","웓","월","웕","웖","웗","웘","웙","웚","웛","웜","웝","웞","웟","웠","웡","웢","웣",
    "웤","웥","웦","웧","웨","웩","웪","웫","웬","웭","웮","웯","웰","웱","웲","웳","웴","웵","웶","웷","웸","웹","웺",
    "웻","웼","웽","웾","웿","잀","잁","잂","잃","임","입","잆","잇","있","잉","잊","잋","잌","잍","잎","잏","자","작",
    "잒","잓","잔","잕","잖","잗","잘","잙","잚","잛","잜","잝","잞","잟","잠","잡","잢","잣","잤","장","잦","잧","잨",
    "잩","잪","잫","재","잭","잮","잯","잰","잱","잲","잳","잴","잵","잶","잷","잸","잹","잺","잻","잼","잽","잾","잿",
    "쟀","쟁","쟂","쟃","쟄","쟅","쟆","쟇","쟈","쟉","쟊","쟋","쟌","쟍","쟎","쟏","쟐","쟑","쟒","쟓","쟔","쟕","쟖",
    "쟗","쟘","쟙","쟚","쟛","쟜","쟝","쟞","쟟","쟠","쟡","쟢","쟣","쟤","쟥","쟦","쟧","쟨","쟩","쟪","쟫","쟬","쟭",
    "쟮","쟯","쟰","쟱","쟲","쟳","쟴","쟵","쟶","쟷","쟸","쟹","쟺","쟻","쟼","쟽","쟾","쟿","좀","좁","좂","좃","좄",
    "종","좆","좇","좈","좉","좊","좋","좌","좍","좎","좏","좐","좑","좒","좓","좔","좕","좖","좗","좘","좙","좚","좛",
    "좜","좝","좞","좟","좠","좡","좢","좣","좤","좥","좦","좧","좨","좩","좪","좫","좬","좭","좮","좯","좰","좱","좲",
    "좳","좴","좵","좶","좷","좸","좹","좺","좻","좼","좽","좾","좿","죀","죁","죂","죃","죄","죅","죆","죇","죈","죉",
    "죊","죋","죌","죍","죎","죏","죐","죑","죒","죓","죔","죕","죖","죗","죘","죙","죚","죛","죜","죝","죞","죟","죠",
    "죡","죢","죣","죤","죥","죦","죧","죨","죩","죪","죫","죬","죭","죮","죯","죰","죱","죲","죳","죴","죵","죶","죷",
    "죸","죹","죺","죻","주","죽","죾","죿","즀","즁","즂","즃","즄","즅","즆","즇","즈","즉","즊","즋","즌","즍","즎",
    "즏","즐","즑","즒","즓","즔","즕","즖","즗","즘","즙","즚","즛","즜","증","즞","즟","즠","즡","즢","즣","즤","즥",
    "즦","즧","즨","즩","즪","즫","즬","즭","즮","즯","즰","즱","즲","즳","즴","즵","즶","즷","즸","즹","즺","즻","즼",
    "즽","즾","즿","지","직","짂","짃","진","짅","짆","짇","질","짉","짊","짋","짌","짍","짎","짏","짐","집","짒","짓",
    "짔","징","짖","짗","짘","짙","짚","짛","짜","짝","짞","짟","짠","짡","짢","짣","짤","짥","짦","짧","짨","짩","짪",
    "짫","짬","짭","짮","짯","짰","짱","짲","짳","짴","짵","짶","짷","째","짹","짺","짻","짼","짽","짾","짿","쪀","쪁",
    "쪂","쪃","쪄","쪅","쪆","쪇","쪈","쪉","쪊","쪋","쪌","쪍","쪎","쪏","쪐","쪑","쪒","쪓","쪔","쪕","쪖","쪗","쪘",
    "쪙","쪚","쪛","쪜","쪝","쪞","쪟","쪠","쪡","쪢","쪣","쪤","쪥","쪦","쪧","쪨","쪩","쪪","쪫","쪬","쪭","쪮","쪯",
    "쪰","쪱","쪲","쪳","쪴","쪵","쪶","쪷","쪸","쪹","쪺","쪻","쪼","쪽","쪾","쪿","쫀","쫁","쫂","쫃","쫄","쫅","쫆",
    "쫇","쫈","쫉","쫊","쫋","쫌","쫍","쫎","쫏","쫐","쫑","쫒","쫓","쫔","쫕","쫖","쫗","쫘","쫙","쫚","쫛","쫜","쫝",
    "쫞","쫟","쫠","쫡","쫢","쫣","쫤","쫥","쫦","쫧","쫨","쫩","쫪","쫫","쫬","쫭","쫮","쫯","쫰","쫱","쫲","쫳","쫴",
    "쫵","쫶","쫷","쫸","쫹","쫺","쫻","쫼","쫽","쫾","쫿","쮀","쮁","쮂","쮃","쮄","쮅","쮆","쮇","쮈","쮉","쮊","쮋",
    "쮌","쮍","쮎","쮏","쮐","쮑","쮒","쮓","쮔","쮕","쮖","쮗","쮘","쮙","쮚","쮛","쮜","쮝","쮞","쮟","쮠","쮡","쮢",
    "쮣","쮤","쮥","쮦","쮧","쮨","쮩","쮪","쮫","쮬","쮭","쮮","쮯","쮰","쮱","쮲","쮳","쮴","쮵","쮶","쮷","쮸","쮹",
    "쮺","쮻","쮼","쮽","쮾","쮿","쯀","쯁","쯂","쯃","쯄","쯅","쯆","쯇","쯈","쯉","쯊","쯋","쯌","쯍","쯎","쯏","쯐",
    "쯑","쯒","쯓","쯔","쯕","쯖","쯗","쯘","쯙","쯚","쯛","쯜","쯝","쯞","쯟","쯠","쯡","쯢","쯣","쯤","쯥","쯦","쯧",
    "쯨","쯩","쯪","쯫","쯬","쯭","쯮","쯯","쯰","쯱","쯲","쯳","쯴","쯵","쯶","쯷","쯸","쯹","쯺","쯻","쯼","쯽","쯾",
    "쯿","첀","첁","첂","첃","첄","첅","첆","첇","첈","첉","첊","첋","첌","첍","첎","첏","첐","첑","첒","첓","첔","첕",
    "첖","첗","처","척","첚","첛","천","첝","첞","첟","철","첡","첢","첣","첤","첥","첦","첧","첨","첩","첪","첫","첬",
    "청","첮","첯","첰","첱","첲","첳","체","첵","첶","첷","첸","첹","첺","첻","첼","첽","첾","첿","쳀","쳁","쳂","쳃",
    "쳄","쳅","쳆","쳇","쳈","쳉","쳊","쳋","쳌","쳍","쳎","쳏","쳐","쳑","쳒","쳓","쳔","쳕","쳖","쳗","쳘","쳙","쳚",
    "쳛","쳜","쳝","쳞","쳟","쳠","쳡","쳢","쳣","쳤","쳥","쳦","쳧","쳨","쳩","쳪","쳫","쳬","쳭","쳮","쳯","쳰","쳱",
    "쳲","쳳","쳴","쳵","쳶","쳷","쳸","쳹","쳺","쳻","쳼","쳽","쳾","쳿","춀","춁","춂","춃","춄","춅","춆","춇","춈",
    "춉","춊","춋","춌","춍","춎","춏","춐","춑","춒","춓","추","축","춖","춗","춘","춙","춚","춛","출","춝","춞","춟",
    "춠","춡","춢","춣","춤","춥","춦","춧","춨","충","춪","춫","춬","춭","춮","춯","춰","춱","춲","춳","춴","춵","춶",
    "춷","춸","춹","춺","춻","춼","춽","춾","춿","췀","췁","췂","췃","췄","췅","췆","췇","췈","췉","췊","췋","췌","췍",
    "췎","췏","췐","췑","췒","췓","췔","췕","췖","췗","췘","췙","췚","췛","췜","췝","췞","췟","췠","췡","췢","췣","췤",
    "췥","췦","췧","취","췩","췪","췫","췬","췭","췮","췯","췰","췱","췲","췳","췴","췵","췶","췷","췸","췹","췺","췻",
    "췼","췽","췾","췿","캀","캁","캂","캃","캄","캅","캆","캇","캈","캉","캊","캋","캌","캍","캎","캏","캐","캑","캒",
    "캓","캔","캕","캖","캗","캘","캙","캚","캛","캜","캝","캞","캟","캠","캡","캢","캣","캤","캥","캦","캧","캨","캩",
    "캪","캫","캬","캭","캮","캯","캰","캱","캲","캳","캴","캵","캶","캷","캸","캹","캺","캻","캼","캽","캾","캿","컀",
    "컁","컂","컃","컄","컅","컆","컇","컈","컉","컊","컋","컌","컍","컎","컏","컐","컑","컒","컓","컔","컕","컖","컗",
    "컘","컙","컚","컛","컜","컝","컞","컟","컠","컡","컢","컣","커","컥","컦","컧","컨","컩","컪","컫","컬","컭","컮",
    "컯","컰","컱","컲","컳","컴","컵","컶","컷","컸","컹","컺","컻","컼","컽","컾","컿","쾀","쾁","쾂","쾃","쾄","쾅",
    "쾆","쾇","쾈","쾉","쾊","쾋","쾌","쾍","쾎","쾏","쾐","쾑","쾒","쾓","쾔","쾕","쾖","쾗","쾘","쾙","쾚","쾛","쾜",
    "쾝","쾞","쾟","쾠","쾡","쾢","쾣","쾤","쾥","쾦","쾧","쾨","쾩","쾪","쾫","쾬","쾭","쾮","쾯","쾰","쾱","쾲","쾳",
    "쾴","쾵","쾶","쾷","쾸","쾹","쾺","쾻","쾼","쾽","쾾","쾿","쿀","쿁","쿂","쿃","쿄","쿅","쿆","쿇","쿈","쿉","쿊",
    "쿋","쿌","쿍","쿎","쿏","쿐","쿑","쿒","쿓","쿔","쿕","쿖","쿗","쿘","쿙","쿚","쿛","쿜","쿝","쿞","쿟","쿠","쿡",
    "쿢","쿣","쿤","쿥","쿦","쿧","쿨","쿩","쿪","쿫","쿬","쿭","쿮","쿯","쿰","쿱","쿲","쿳","쿴","쿵","쿶","쿷","쿸",
    "쿹","쿺","쿻","쿼","쿽","쿾","쿿","킀","킁","킂","킃","킄","킅","킆","킇","킈","킉","킊","킋","킌","킍","킎","킏",
    "킐","킑","킒","킓","킔","킕","킖","킗","킘","킙","킚","킛","킜","킝","킞","킟","킠","킡","킢","킣","키","킥","킦",
    "킧","킨","킩","킪","킫","킬","킭","킮","킯","킰","킱","킲","킳","킴","킵","킶","킷","킸","킹","킺","킻","킼","킽",
    "킾","킿","타","탁","탂","탃","탄","탅","탆","탇","탈","탉","탊","탋","탌","탍","탎","탏","탐","탑","탒","탓","탔",
    "탕","탖","탗","탘","탙","탚","탛","태","택","탞","탟","탠","탡","탢","탣","탤","탥","탦","탧","탨","탩","탪","탫",
    "탬","탭","탮","탯","탰","탱","탲","탳","탴","탵","탶","탷","탸","탹","탺","탻","탼","탽","탾","탿","톀","톁","톂",
    "톃","톄","톅","톆","톇","톈","톉","톊","톋","톌","톍","톎","톏","톐","톑","톒","톓","톔","톕","톖","톗","톘","톙",
    "톚","톛","톜","톝","톞","톟","토","톡","톢","톣","톤","톥","톦","톧","톨","톩","톪","톫","톬","톭","톮","톯","톰",
    "톱","톲","톳","톴","통","톶","톷","톸","톹","톺","톻","톼","톽","톾","톿","퇀","퇁","퇂","퇃","퇄","퇅","퇆","퇇",
    "퇈","퇉","퇊","퇋","퇌","퇍","퇎","퇏","퇐","퇑","퇒","퇓","퇔","퇕","퇖","퇗","퇘","퇙","퇚","퇛","퇜","퇝","퇞",
    "퇟","퇠","퇡","퇢","퇣","퇤","퇥","퇦","퇧","퇨","퇩","퇪","퇫","퇬","퇭","퇮","퇯","퇰","퇱","퇲","퇳","퇴","퇵",
    "퇶","퇷","퇸","퇹","퇺","퇻","퇼","퇽","퇾","퇿","튀","튁","튂","튃","튄","튅","튆","튇","튈","튉","튊","튋","튌",
    "튍","튎","튏","튐","튑","튒","튓","튔","튕","튖","튗","튘","튙","튚","튛","튜","튝","튞","튟","튠","튡","튢","튣",
    "튤","튥","튦","튧","튨","튩","튪","튫","튬","튭","튮","튯","튰","튱","튲","튳","튴","튵","튶","튷","트","특","튺",
    "튻","튼","튽","튾","튿","틀","틁","틂","틃","틄","틅","틆","틇","틈","틉","틊","틋","틌","틍","틎","틏","틐","틑",
    "틒","틓","틔","틕","틖","틗","틘","틙","틚","틛","틜","틝","틞","틟","틠","틡","틢","틣","틤","틥","틦","틧","틨",
    "틩","틪","틫","틬","틭","틮","틯","티","틱","틲","틳","틴","틵","틶","틷","틸","틹","틺","틻","틼","틽","틾","틿",
    "펀","펁","펂","펃","펄","펅","펆","펇","펈","펉","펊","펋","펌","펍","펎","펏","펐","펑","펒","펓","펔","펕","펖",
    "펗","페","펙","펚","펛","펜","펝","펞","펟","펠","펡","펢","펣","펤","펥","펦","펧","펨","펩","펪","펫","펬","펭",
    "펮","펯","펰","펱","펲","펳","펴","펵","펶","펷","편","펹","펺","펻","펼","펽","펾","펿","폀","폁","폂","폃","폄",
    "폅","폆","폇","폈","평","폊","폋","폌","폍","폎","폏","폐","폑","폒","폓","폔","폕","폖","폗","폘","폙","폚","폛",
    "폜","폝","폞","폟","폠","폡","폢","폣","폤","폥","폦","폧","폨","폩","폪","폫","포","폭","폮","폯","폰","폱","폲",
    "폳","폴","폵","폶","폷","폸","폹","폺","폻","폼","폽","폾","폿","풀","풁","풂","풃","풄","풅","풆","풇","품","풉",
    "풊","풋","풌","풍","풎","풏","풐","풑","풒","풓","풔","풕","풖","풗","풘","풙","풚","풛","풜","풝","풞","풟","풠",
    "풡","풢","풣","풤","풥","풦","풧","풨","풩","풪","풫","풬","풭","풮","풯","풰","풱","풲","풳","풴","풵","풶","풷",
    "풸","풹","풺","풻","풼","풽","풾","풿","퓀","퓁","퓂","퓃","퓄","퓅","퓆","퓇","퓈","퓉","퓊","퓋","퓌","퓍","퓎",
    "퓏","퓐","퓑","퓒","퓓","퓔","퓕","퓖","퓗","퓘","퓙","퓚","퓛","퓜","퓝","퓞","퓟","퓠","퓡","퓢","퓣","퓤","퓥",
    "퓦","퓧","퓨","퓩","퓪","퓫","퓬","퓭","퓮","퓯","퓰","퓱","퓲","퓳","퓴","퓵","퓶","퓷","퓸","퓹","퓺","퓻","퓼",
    "퓽","퓾","퓿","햀","햁","햂","햃","햄","햅","햆","햇","했","행","햊","햋","햌","햍","햎","햏","햐","햑","햒","햓",
    "햔","햕","햖","햗","햘","햙","햚","햛","햜","햝","햞","햟","햠","햡","햢","햣","햤","향","햦","햧","햨","햩","햪",
    "햫","햬","햭","햮","햯","햰","햱","햲","햳","햴","햵","햶","햷","햸","햹","햺","햻","햼","햽","햾","햿","헀","헁",
    "헂","헃","헄","헅","헆","헇","허","헉","헊","헋","헌","헍","헎","헏","헐","헑","헒","헓","헔","헕","헖","헗","험",
    "헙","헚","헛","헜","헝","헞","헟","헠","헡","헢","헣","헤","헥","헦","헧","헨","헩","헪","헫","헬","헭","헮","헯",
    "헰","헱","헲","헳","헴","헵","헶","헷","헸","헹","헺","헻","헼","헽","헾","헿","횀","횁","횂","횃","횄","횅","횆",
    "횇","횈","횉","횊","횋","회","획","횎","횏","횐","횑","횒","횓","횔","횕","횖","횗","횘","횙","횚","횛","횜","횝",
    "횞","횟","횠","횡","횢","횣","횤","횥","횦","횧","효","횩","횪","횫","횬","횭","횮","횯","횰","횱","횲","횳","횴",
    "횵","횶","횷","횸","횹","횺","횻","횼","횽","횾","횿","훀","훁","훂","훃","후","훅","훆","훇","훈","훉","훊","훋",
    "훌","훍","훎","훏","훐","훑","훒","훓","훔","훕","훖","훗","훘","훙","훚","훛","훜","훝","훞","훟","훠","훡","훢",
    "훣","훤","훥","훦","훧","훨","훩","훪","훫","훬","훭","훮","훯","훰","훱","훲","훳","훴","훵","훶","훷","훸","훹",
    "훺","훻","훼","훽","훾","훿","힀","힁","힂","힃","힄","힅","힆","힇","히","힉","힊","힋","힌","힍","힎","힏","힐",
    "힑","힒","힓","힔","힕","힖","힗","힘","힙","힚","힛","힜","힝","힞","힟","힠","힡","힢","힣","힤","힥","힦","힧",
    "힨","힩","힪","힫","힬","힭","힮","힯","ힰ","ힱ","ힲ","ힳ","ힴ","ힵ","ힶ","ힷ","ힸ","ힹ","ힺ","ힻ","ힼ","ힽ","ힾ",
    "ힿ","ퟀ","ퟁ","ퟂ","ퟃ","ퟄ","ퟅ","ퟆ","퟇","퟈","퟉","퟊","ퟋ","ퟌ","ퟍ","ퟎ","ퟏ","ퟐ","ퟑ","ퟒ","ퟓ","ퟔ","ퟕ",
    "ퟖ","ퟗ","ퟘ","ퟙ","ퟚ","ퟛ","ퟜ","ퟝ","ퟞ","ퟟ","ퟠ","ퟡ","ퟢ","ퟣ","ퟤ","ퟥ","ퟦ","ퟧ","ퟨ","ퟩ","ퟪ","ퟫ","ퟬ",
    "ퟭ","ퟮ","ퟯ","ퟰ","ퟱ","ퟲ","ퟳ","ퟴ","ퟵ","ퟶ","ퟷ","ퟸ","ퟹ","ퟺ","ퟻ","퟼","퟽","퟾","퟿","","","","",
    "","","","","","","","","","","","","","","","","","","","","","","",
    "","","","","","","","","","","","","","","","","","","","","","","",
    "","","","","","","","","","","","","","","","","","","","","","","",
    "","","","","","","","","","","","","","","","","","","","","","","",
    "","","","","","","","","","","","","","","","","","","","","","","",
    "","","","","","","","","","","","","","","","","","","","","","","",
    "","","","","","","","","","","","","","","","","","","","","","","",
    "","","","","","","","","","","","","","","","","","","","","","","",
    "","","","","","","","","","","","","","","","","","","","","","","",
    "","","","","","","","","","","","","","","","","","","","","","","",
    "","","","","","","","","","","","","","","","","","","","","","","",
    "","","","","","","","","","","","","","","","","","","","","","","",
    "","","","","","","","","","","","","","","","","","","","","","","",
    "","","","","","","","","","","","","","","","","","","","","","","",
    "","","","","","","","","","","","","","","","","","","","","","","",
    "","","","","","","","","","","","","","","","","","","","","","","",
    "","","","","","","","","","","","","","","","","","","","","","","",
    "","","","","","","","","","","","","","","","","","","","","","","",
    "","","","","","","","","","","","","","","","","","","","","","","",
    "","","","","","","","","","","","","","","","","","","","","","","",
    "","","","","","","","","","","","","","","","","","","","","","","",
    "","","","","","","","","","","","","","","","","","","","","","","",
    "","","","","","","","","","","","","","","","","","","","","","","",
    "","","","","","","","","","","","","","","","","","","","","","","",
    "","","","","","","","","","","","","","","","","","","","","","","",
    "","","","","","","","","","","","","","","","","","","","","","","",
    "","","","","","","","","","","","","","","","","","","","","","","",
    "","","","","","","","","","","","","","","","","","","","","","","",
    "","","","","","","","","","","","","","","","","","","","","","","",
    "","","","","","","","","","","","","","","","","","","","","","","",
    "","","","","","","","","","","","","","","","","","","","","","","",
    "","","","","","","","","","","","","","","","","","","","","","","",
    "","","","","","","","","","","","","","","","","","","","","","","",
    "","","","","","","","","","","","","","","","","","","","","","","",
    "","","","","","","","","","","","","","","","","","","","","","","",
    "","","","","","","","","","","","","","","","","","","","","","","",
    "","","","","","","","","","","","","","","","","","","","","","","",
    "","","","","","","","","","","","","","","","","","","","","","","",
    "","","","","","","","","","","","","","","","","","","","","","","",
    "","","","","","","","","","","","","","","","","","","","","","","",
    "","","","","","","","","","","","","","","","","","","","","","","",
    "","","","","","","","","","","","","","","","","","","","","","","",
    "","","","","","","","","","","","","","","","","","","","","","","",
    "","","","","","","","","","","","","","","","","","","","","","","",
    "","","","","","","","","","","","","","","","","","","","","","","",
    "","","","","","","","","","","","","","","","","","","","","","","",
    "","","","","","","","","","","","","","","","","","","","","","","",
    "","","","","","","","","","","","","","","","","","","","","","","",
    "","","","","","","","","","","","","","","","","","","","","","","",
    "","","","","","","","","","","","","","","","","","","","","","","",
    "","","","","","","","","","","","","","","","","","","","","","","",
    "","","","","","","","","","","","","","","","","","","","","","","",
    "","","","","","","","","","","","","","","","","","","","","","","",
    "","","","","","","","","","","","","","","","","","","","","","","",
    "","","","","","","","","","","","","","","","","","","","","","","",
    "","","","","","","","","","","","","","","","","","","","","","","",
    "","","","","","","","","","","","","","","","","","","","","","","",
    "","","","","","","","","","","","","","","","","","","","","","","",
    "","","","","","","","","","","","","","","","","","","","","","","",
    "","","","","","","","","","","","","","","","","","","","","","","",
    "","","","","","","","","","","","","","","","","","","","","","","",
    "","","","","","","","","","","","","","","","","","","","","","","",
    "","","","","","","","","","","","","","","","","","","","","","","",
    "","","","","","","","","","","","","","","","","","","","","","","",
    "","","","","","","","","","","","","","","","","","","","","","","",
    "","","","","","","","","","","","","","","","","","","","","","","",
    "","","","","","","","","","","","","","","","","","","","","","","",
    "","","","","","","","","","","","","","","","","","","","","","","",
    "","","","","","","","","","","","","","","","","","","","","","","",
    "","","","","","","","","","","","","","","","","","","","","","","",
    "","","","","","","","","","","","","","","","","","","","","","","",
    "","","","","","","","","","","","","","","","","","","","","","","",
    "","","","","","","","","","","","","","","","","","","","","","","",
    "","","","","","","","","","","","","","","","","","","","","","","",
    "","","","","","","","","","","","","","","","","","","","","","","",
    "","","","","","","","","","","","","","","","","","","","","","","",
    "","","","","","","","","","","","","","","","","","","","","","","",
    "","","","","","","","","","","","","","","","","","","","","","","",
    "","","","","","","","","","","","","","","","","","","","","","","",
    "","","","","","","","","","","","","","","","","","","","","","","",
    "","","","","","","","","","","","","","","","","","","","","","","",
    "","","","","","","","","","","","","","","","","","","","","","","",
    "","","","","","","","","","","","","","","","","","","","","","","",
    "","","","","","","","","","","","","","","","","","","","","","","",
    "","","","","","","","","","","","","","","","","","","","","","","",
    "","","","","","","","","","","","","","","","","","","","","","","",
    "","","","","","","","","","","","","","","","","","","","","","","",
    "","","","","","","","","","","","","","","","","","","","","","","",
    "","","","","","","","","","","","","","","","","","","","","","","",
    "","","","","","","","","","","","","","","","","","","","","","","",
    "","","","","","","","","","","","","","","","","","","","","","","",
    "","","","","","","","","","","","","","","","","","","","","","","",
    "","","","","","","","","","","","","","","","","","","","","","","",
    "","","","","","","","","","","","","","","","","","","","","","","",
    "","","","","","","","","","","","","","","","","","","","","","","",
    "","","","","","","","","","","","","","","","","","","","","","","",
    "","","","","","","","","","","","","","","","","","","","","","","",
    "","","","","","","","","","","","","","","","","","","","","","","",
    "","","","","","","","","","","","","","","","","","","","","","","",
    "","","","","","","","","","","","","","","","","","","","","","","",
    "","","","","","","","","","","","","","","","","","","","","","","",
    "","","","","","","","","","","","","","","","","","","","","","","",
    "","","","","","","","","","","","","","","","","","","","","","","",
    "","","","","","","","","","","","","","","","","","","","","","","",
    "","","","","","","","","","","","","","","","","","","","","","","",
    "","","","","","","","","","","","","","","","","","","","","","","",
    "","","","","","","","","","","","","","","","","","","","","","","",
    "","","","","","","","","","","","","","","","","","","","","","","",
    "","","","","","","","","","","","","","","","","","","","","","","",
    "","","","","","","","","","","","","","","","","","","","","","","",
    "","","","","","","","","","","","","","","","","","","","","","","",
    "","","","","","","","","","","","","","","","","","","","","","","",
    "","","","","","","","","","","","","","","","","","","","","","","",
    "","","","","","","","","","","","","","","","","","","","","","","",
    "","","","","","","","","","","","","","","","","","","","","","","",
    "","","","","","","","","","","","","","","","","","","","","","","",
    "","","","","","","","","","","","","","","","","","","","","","","",
    "","","","","","","","","","","","","","","","","","","","","","","",
    "","","","","","","","","","","","","","","","","","","","","","","",
    "","","","","","","","","","","","","","","","","","","","","","","",
    "","","","","","","","","","","","","","","","","","","","","","","",
    "","","","","","","","","","","","","","","","","","","","","","","",
    "","","","","","","","","","","","","","","","","","","","","","","",
    "","","","","","","","","","","","","","","","","","","","","","","",
    "","","","","","","","","","","","","","","","","","","","","","","",
    "","","","","","","","","","","","","","","","","","","","","","","",
    "","","","","","","","","","","","","","","","","","","","","","","",
    "","","","","","","","","","","","","","","","","","","","","","","",
    "","","","","","","","","","","","","","","","","","","","","","","",
    "","","","","","","","","","","","","","","","","","","","","","","",
    "","","","","","","","","","","","","","","","","","","","","","","",
    "","","","","","","","","","","","","","","","","","","","","","","",
    "","","","","","","","","","","","","","","","","","","","","","","",
    "","","","","","","","","","","","","","","","","","","","","","","",
    "","","","","","","","","","","","","","","","","","","","","","","",
    "","","","","","","","","","","","","","","","","","","","","","","",
    "","","","","","","","","","","","","","","","","","","","","","","",
    "","","","","","","","","","","","","","","","","","","","","","","",
    "","","","","","","","","","","","","","","","","","","","","","","呂",
    "女","廬","旅","濾","礪","閭","驪","麗","黎","力","曆","歷","轢","年","憐","戀","撚","漣","煉","璉","秊","練","聯",
    "輦","蓮","連","鍊","列","劣","咽","烈","裂","說","廉","念","捻","殮","簾","獵","令","囹","寧","嶺","怜","玲","瑩",
    "羚","聆","鈴","零","靈","領","例","禮","醴","隸","惡","了","僚","寮","尿","料","樂","燎","療","蓼","遼","龍","暈",
    "阮","劉","杻","柳","流","溜","琉","留","硫","紐","類","六","戮","陸","倫","崙","淪","輪","律","慄","栗","率","隆",
    "利","吏","履","易","李","梨","泥","理","痢","罹","裏","裡","里","離","匿","溺","吝","燐","璘","藺","隣","鱗","麟",
    "林","淋","臨","立","笠","粒","狀","炙","識","什","茶","刺","婢","嬨","廒","廙","彩","徭","惘","慎","愈","憎","慠",
    "懲","戴","揄","搜","摒","敖","晴","朗","望","杖","歹","殺","流","滛","滋","漢","瀞","煮","瞧","爵","犯","猪","瑱",
    "甆","画","瘝","瘟","益","盛","直","睊","着","磌","窱","節","类","絛","練","缾","者","荒","華","蝹","襁","覆","視",
    "調","諸","請","謁","諾","諭","謹","變","贈","輸","遲","醙","鉶","陼","難","靖","韛","響","頋","頻","鬒","龜","𢡊",
    "𢡄","𣏕","㮝","䀘","䀹","𥉉","𥳐","𧻓","齃","龎","﫚","﫛","﫜","﫝","﫞","﫟","﫠","﫡","﫢","﫣","﫤","﫥","﫦",
    "﫧","﫨","﫩","﫪","﫫","﫬","﫭","﫮","﫯","﫰","﫱","﫲","﫳","﫴","﫵","﫶","﫷","﫸","﫹","﫺","﫻","﫼","﫽",
    "﫾","﫿","ﮀ","ﮁ","ﮂ","ﮃ","ﮄ","ﮅ","ﮆ","ﮇ","ﮈ","ﮉ","ﮊ","ﮋ","ﮌ","ﮍ","ﮎ","ﮏ","ﮐ","ﮑ","ﮒ","ﮓ","ﮔ",
    "ﮕ","ﮖ","ﮗ","ﮘ","ﮙ","ﮚ","ﮛ","ﮜ","ﮝ","ﮞ","ﮟ","ﮠ","ﮡ","ﮢ","ﮣ","ﮤ","ﮥ","ﮦ","ﮧ","ﮨ","ﮩ","ﮪ","ﮫ",
    "ﮬ","ﮭ","ﮮ","ﮯ","ﮰ","ﮱ","﮲","﮳","﮴","﮵","﮶","﮷","﮸","﮹","﮺","﮻","﮼","﮽","﮾","﮿","﯀","﯁","﯂",
    "﯃","﯄","﯅","﯆","﯇","﯈","﯉","﯊","﯋","﯌","﯍","﯎","﯏","﯐","﯑","﯒","ﯓ","ﯔ","ﯕ","ﯖ","ﯗ","ﯘ","ﯙ",
    "ﯚ","ﯛ","ﯜ","ﯝ","ﯞ","ﯟ","ﯠ","ﯡ","ﯢ","ﯣ","ﯤ","ﯥ","ﯦ","ﯧ","ﯨ","ﯩ","ﯪ","ﯫ","ﯬ","ﯭ","ﯮ","ﯯ","ﯰ",
    "ﯱ","ﯲ","ﯳ","ﯴ","ﯵ","ﯶ","ﯷ","ﯸ","ﯹ","ﯺ","ﯻ","ﯼ","ﯽ","ﯾ","ﯿ","ﲀ","ﲁ","ﲂ","ﲃ","ﲄ","ﲅ","ﲆ","ﲇ",
    "ﲈ","ﲉ","ﲊ","ﲋ","ﲌ","ﲍ","ﲎ","ﲏ","ﲐ","ﲑ","ﲒ","ﲓ","ﲔ","ﲕ","ﲖ","ﲗ","ﲘ","ﲙ","ﲚ","ﲛ","ﲜ","ﲝ","ﲞ",
    "ﲟ","ﲠ","ﲡ","ﲢ","ﲣ","ﲤ","ﲥ","ﲦ","ﲧ","ﲨ","ﲩ","ﲪ","ﲫ","ﲬ","ﲭ","ﲮ","ﲯ","ﲰ","ﲱ","ﲲ","ﲳ","ﲴ","ﲵ",
    "ﲶ","ﲷ","ﲸ","ﲹ","ﲺ","ﲻ","ﲼ","ﲽ","ﲾ","ﲿ","ﳀ","ﳁ","ﳂ","ﳃ","ﳄ","ﳅ","ﳆ","ﳇ","ﳈ","ﳉ","ﳊ","ﳋ","ﳌ",
    "ﳍ","ﳎ","ﳏ","ﳐ","ﳑ","ﳒ","ﳓ","ﳔ","ﳕ","ﳖ","ﳗ","ﳘ","ﳙ","ﳚ","ﳛ","ﳜ","ﳝ","ﳞ","ﳟ","ﳠ","ﳡ","ﳢ","ﳣ",
    "ﳤ","ﳥ","ﳦ","ﳧ","ﳨ","ﳩ","ﳪ","ﳫ","ﳬ","ﳭ","ﳮ","ﳯ","ﳰ","ﳱ","ﳲ","ﳳ","ﳴ","ﳵ","ﳶ","ﳷ","ﳸ","ﳹ","ﳺ",
    "ﳻ","ﳼ","ﳽ","ﳾ","ﳿ","ﶀ","ﶁ","ﶂ","ﶃ","ﶄ","ﶅ","ﶆ","ﶇ","ﶈ","ﶉ","ﶊ","ﶋ","ﶌ","ﶍ","ﶎ","ﶏ","﶐","﶑",
    "ﶒ","ﶓ","ﶔ","ﶕ","ﶖ","ﶗ","ﶘ","ﶙ","ﶚ","ﶛ","ﶜ","ﶝ","ﶞ","ﶟ","ﶠ","ﶡ","ﶢ","ﶣ","ﶤ","ﶥ","ﶦ","ﶧ","ﶨ",
    "ﶩ","ﶪ","ﶫ","ﶬ","ﶭ","ﶮ","ﶯ","ﶰ","ﶱ","ﶲ","ﶳ","ﶴ","ﶵ","ﶶ","ﶷ","ﶸ","ﶹ","ﶺ","ﶻ","ﶼ","ﶽ","ﶾ","ﶿ",
    "ﷀ","ﷁ","ﷂ","ﷃ","ﷄ","ﷅ","ﷆ","ﷇ","﷈","﷉","﷊","﷋","﷌","﷍","﷎","﷏","﷐","﷑","﷒","﷓","﷔","﷕","﷖",
    "﷗","﷘","﷙","﷚","﷛","﷜","﷝","﷞","﷟","﷠","﷡","﷢","﷣","﷤","﷥","﷦","﷧","﷨","﷩","﷪","﷫","﷬","﷭",
    "﷮","﷯","ﷰ","ﷱ","ﷲ","ﷳ","ﷴ","ﷵ","ﷶ","ﷷ","ﷸ","ﷹ","ﷺ","ﷻ","﷼","﷽","﷾","﷿","ﺀ","ﺁ","ﺂ","ﺃ","ﺄ",
    "ﺅ","ﺆ","ﺇ","ﺈ","ﺉ","ﺊ","ﺋ","ﺌ","ﺍ","ﺎ","ﺏ","ﺐ","ﺑ","ﺒ","ﺓ","ﺔ","ﺕ","ﺖ","ﺗ","ﺘ","ﺙ","ﺚ","ﺛ",
    "ﺜ","ﺝ","ﺞ","ﺟ","ﺠ","ﺡ","ﺢ","ﺣ","ﺤ","ﺥ","ﺦ","ﺧ","ﺨ","ﺩ","ﺪ","ﺫ","ﺬ","ﺭ","ﺮ","ﺯ","ﺰ","ﺱ","ﺲ",
    "ﺳ","ﺴ","ﺵ","ﺶ","ﺷ","ﺸ","ﺹ","ﺺ","ﺻ","ﺼ","ﺽ","ﺾ","ﺿ","ﻀ","ﻁ","ﻂ","ﻃ","ﻄ","ﻅ","ﻆ","ﻇ","ﻈ","ﻉ",
    "ﻊ","ﻋ","ﻌ","ﻍ","ﻎ","ﻏ","ﻐ","ﻑ","ﻒ","ﻓ","ﻔ","ﻕ","ﻖ","ﻗ","ﻘ","ﻙ","ﻚ","ﻛ","ﻜ","ﻝ","ﻞ","ﻟ","ﻠ",
    "ﻡ","ﻢ","ﻣ","ﻤ","ﻥ","ﻦ","ﻧ","ﻨ","ﻩ","ﻪ","ﻫ","ﻬ","ﻭ","ﻮ","ﻯ","ﻰ","ﻱ","ﻲ","ﻳ","ﻴ","ﻵ","ﻶ","ﻷ",
    "ﻸ","ﻹ","ﻺ","ﻻ","ﻼ","﻽","﻾","﻿","ﾀ","ﾁ","ﾂ","ﾃ","ﾄ","ﾅ","ﾆ","ﾇ","ﾈ","ﾉ","ﾊ","ﾋ","ﾌ","ﾍ","ﾎ",
    "ﾏ","ﾐ","ﾑ","ﾒ","ﾓ","ﾔ","ﾕ","ﾖ","ﾗ","ﾘ","ﾙ","ﾚ","ﾛ","ﾜ","ﾝ","ﾞ","ﾟ","ﾠ","ﾡ","ﾢ","ﾣ","ﾤ","ﾥ",
    "ﾦ","ﾧ","ﾨ","ﾩ","ﾪ","ﾫ","ﾬ","ﾭ","ﾮ","ﾯ","ﾰ","ﾱ","ﾲ","ﾳ","ﾴ","ﾵ","ﾶ","ﾷ","ﾸ","ﾹ","ﾺ","ﾻ","ﾼ",
    "ﾽ","ﾾ","﾿","￀","￁","ￂ","ￃ","ￄ","ￅ","ￆ","ￇ","￈","￉","ￊ","ￋ","ￌ","ￍ","ￎ","ￏ","￐","￑","ￒ","ￓ",
    "ￔ","ￕ","ￖ","ￗ","￘","￙","ￚ","ￛ","ￜ","￝","￞","￟","￠","￡","￢","￣","￤","￥","￦","￧","￨","￩","￪",
    "￫","￬","￭","￮","￯","￰","￱","￲","￳","￴","￵","￶","￷","￸","￹","￺","￻","￼","�","￾","￿">>

\* The code point of CodePoints[i]: U+0001..U+00FF but the backtick, then
\* the upper half of every row of 256 but the surrogates' rows D8..DF.
CodePointAt(i) ==
    IF i < 96 THEN i
    ELSE IF i < 255 THEN i + 1
    ELSE LET j == i - 255
             row == (j \div 128) + 1
         IN  256 * (IF row < 216 THEN row ELSE row + 8) + 128 + (j % 128)

\* A character beyond U+FFFF is two UTF-16 units long.  Those a literal
\* holds have a first unit out of D880..D8FF, D980..D9FF, DA80..DAFF,
\* DB80..DBFF and a second out of DC80..DCFF, DD80..DDFF, DE80..DEFF,
\* DF80..DFFF: HighSurrogates has each first unit in order, before DC80,
\* LowSurrogates each second unit in order, after D880.
HighSurrogates == <<"𰂀","𰒀","𰢀","𰲀","𱂀","𱒀","𱢀","𱲀","𲂀","𲒀","𲢀","𲲀","𳂀","𳒀","𳢀","𳲀","𴂀","𴒀","𴢀",
    "𴲀","𵂀","𵒀","𵢀","𵲀","𶂀","𶒀","𶢀","𶲀","𷂀","𷒀","𷢀","𷲀","𸂀","𸒀","𸢀","𸲀","𹂀","𹒀","𹢀","𹲀","𺂀","𺒀",
    "𺢀","𺲀","𻂀","𻒀","𻢀","𻲀","𼂀","𼒀","𼢀","𼲀","𽂀","𽒀","𽢀","𽲀","𾂀","𾒀","𾢀","𾲀","𿂀","𿒀","𿢀","𿲀","񀂀",
    "񀒀","񀢀","񀲀","񁂀","񁒀","񁢀","񁲀","񂂀","񂒀","񂢀","񂲀","񃂀","񃒀","񃢀","񃲀","񄂀","񄒀","񄢀","񄲀","񅂀","񅒀","񅢀","񅲀",
    "񆂀","񆒀","񆢀","񆲀","񇂀","񇒀","񇢀","񇲀","񈂀","񈒀","񈢀","񈲀","񉂀","񉒀","񉢀","񉲀","񊂀","񊒀","񊢀","񊲀","񋂀","񋒀","񋢀",
    "񋲀","񌂀","񌒀","񌢀","񌲀","񍂀","񍒀","񍢀","񍲀","񎂀","񎒀","񎢀","񎲀","񏂀","񏒀","񏢀","񏲀","񰂀","񰒀","񰢀","񰲀","񱂀","񱒀",
    "񱢀","񱲀","񲂀","񲒀","񲢀","񲲀","񳂀","񳒀","񳢀","񳲀","񴂀","񴒀","񴢀","񴲀","񵂀","񵒀","񵢀","񵲀","񶂀","񶒀","񶢀","񶲀","񷂀",
    "񷒀","񷢀","񷲀","񸂀","񸒀","񸢀","񸲀","񹂀","񹒀","񹢀","񹲀","񺂀","񺒀","񺢀","񺲀","񻂀","񻒀","񻢀","񻲀","񼂀","񼒀","񼢀","񼲀",
    "񽂀","񽒀","񽢀","񽲀","񾂀","񾒀","񾢀","񾲀","񿂀","񿒀","񿢀","񿲀","򀂀","򀒀","򀢀","򀲀","򁂀","򁒀","򁢀","򁲀","򂂀","򂒀","򂢀",
    "򂲀","򃂀","򃒀","򃢀","򃲀","򄂀","򄒀","򄢀","򄲀","򅂀","򅒀","򅢀","򅲀","򆂀","򆒀","򆢀","򆲀","򇂀","򇒀","򇢀","򇲀","򈂀","򈒀",
    "򈢀","򈲀","򉂀","򉒀","򉢀","򉲀","򊂀","򊒀","򊢀","򊲀","򋂀","򋒀","򋢀","򋲀","򌂀","򌒀","򌢀","򌲀","򍂀","򍒀","򍢀","򍲀","򎂀",
    "򎒀","򎢀","򎲀","򏂀","򏒀","򏢀","򏲀","򰂀","򰒀","򰢀","򰲀","򱂀","򱒀","򱢀","򱲀","򲂀","򲒀","򲢀","򲲀","򳂀","򳒀","򳢀","򳲀",
    "򴂀","򴒀","򴢀","򴲀","򵂀","򵒀","򵢀","򵲀","򶂀","򶒀","򶢀","򶲀","򷂀","򷒀","򷢀","򷲀","򸂀","򸒀","򸢀","򸲀","򹂀","򹒀","򹢀",
    "򹲀","򺂀","򺒀","򺢀","򺲀","򻂀","򻒀","򻢀","򻲀","򼂀","򼒀","򼢀","򼲀","򽂀","򽒀","򽢀","򽲀","򾂀","򾒀","򾢀","򾲀","򿂀","򿒀",
    "򿢀","򿲀","󀂀","󀒀","󀢀","󀲀","󁂀","󁒀","󁢀","󁲀","󂂀","󂒀","󂢀","󂲀","󃂀","󃒀","󃢀","󃲀","󄂀","󄒀","󄢀","󄲀","󅂀",
    "󅒀","󅢀","󅲀","󆂀","󆒀","󆢀","󆲀","󇂀","󇒀","󇢀","󇲀","󈂀","󈒀","󈢀","󈲀","󉂀","󉒀","󉢀","󉲀","󊂀","󊒀","󊢀","󊲀",
    "󋂀","󋒀","󋢀","󋲀","󌂀","󌒀","󌢀","󌲀","󍂀","󍒀","󍢀","󍲀","󎂀","󎒀","󎢀","󎲀","󏂀","󏒀","󏢀","󏲀","󰂀","󰒀","󰢀",
    "󰲀","󱂀","󱒀","󱢀","󱲀","󲂀","󲒀","󲢀","󲲀","󳂀","󳒀","󳢀","󳲀","󴂀","󴒀","󴢀","󴲀","󵂀","󵒀","󵢀","󵲀","󶂀","󶒀",
    "󶢀","󶲀","󷂀","󷒀","󷢀","󷲀","󸂀","󸒀","󸢀","󸲀","󹂀","󹒀","󹢀","󹲀","󺂀","󺒀","󺢀","󺲀","󻂀","󻒀","󻢀","󻲀","󼂀",
    "󼒀","󼢀","󼲀","󽂀","󽒀","󽢀","󽲀","󾂀","󾒀","󾢀","󾲀","󿂀","󿒀","󿢀","󿲀","􀂀","􀒀","􀢀","􀲀","􁂀","􁒀","􁢀","􁲀",
    "􂂀","􂒀","􂢀","􂲀","􃂀","􃒀","􃢀","􃲀","􄂀","􄒀","􄢀","􄲀","􅂀","􅒀","􅢀","􅲀","􆂀","􆒀","􆢀","􆲀","􇂀","􇒀","􇢀",
    "􇲀","􈂀","􈒀","􈢀","􈲀","􉂀","􉒀","􉢀","􉲀","􊂀","􊒀","􊢀","􊲀","􋂀","􋒀","􋢀","􋲀","􌂀","􌒀","􌢀","􌲀","􍂀","􍒀",
    "􍢀","􍲀","􎂀","􎒀","􎢀","􎲀","􏂀","􏒀","􏢀","􏲀">>

LowSurrogates == <<"𰂀","𰂁","𰂂","𰂃","𰂄","𰂅","𰂆","𰂇","𰂈","𰂉","𰂊","𰂋","𰂌","𰂍","𰂎","𰂏","𰂐","𰂑","𰂒",
    "𰂓","𰂔","𰂕","𰂖","𰂗","𰂘","𰂙","𰂚","𰂛","𰂜","𰂝","𰂞","𰂟","𰂠","𰂡","𰂢","𰂣","𰂤","𰂥","𰂦","𰂧","𰂨","𰂩",
    "𰂪","𰂫","𰂬","𰂭","𰂮","𰂯","𰂰","𰂱","𰂲","𰂳","𰂴","𰂵","𰂶","𰂷","𰂸","𰂹","𰂺","𰂻","𰂼","𰂽","𰂾","𰂿","𰃀",
    "𰃁","𰃂","𰃃","𰃄","𰃅","𰃆","𰃇","𰃈","𰃉","𰃊","𰃋","𰃌","𰃍","𰃎","𰃏","𰃐","𰃑","𰃒","𰃓","𰃔","𰃕","𰃖","𰃗",
    "𰃘","𰃙","𰃚","𰃛","𰃜","𰃝","𰃞","𰃟","𰃠","𰃡","𰃢","𰃣","𰃤","𰃥","𰃦","𰃧","𰃨","𰃩","𰃪","𰃫","𰃬","𰃭","𰃮",
    "𰃯","𰃰","𰃱","𰃲","𰃳","𰃴","𰃵","𰃶","𰃷","𰃸","𰃹","𰃺","𰃻","𰃼","𰃽","𰃾","𰃿","𰆀","𰆁","𰆂","𰆃","𰆄","𰆅",
    "𰆆","𰆇","𰆈","𰆉","𰆊","𰆋","𰆌","𰆍","𰆎","𰆏","𰆐","𰆑","𰆒","𰆓","𰆔","𰆕","𰆖","𰆗","𰆘","𰆙","𰆚","𰆛","𰆜",
    "𰆝","𰆞","𰆟","𰆠","𰆡","𰆢","𰆣","𰆤","𰆥","𰆦","𰆧","𰆨","𰆩","𰆪","𰆫","𰆬","𰆭","𰆮","𰆯","𰆰","𰆱","𰆲","𰆳",
    "𰆴","𰆵","𰆶","𰆷","𰆸","𰆹","𰆺","𰆻","𰆼","𰆽","𰆾","𰆿","𰇀","𰇁","𰇂","𰇃","𰇄","𰇅","𰇆","𰇇","𰇈","𰇉","𰇊",
    "𰇋","𰇌","𰇍","𰇎","𰇏","𰇐","𰇑","𰇒","𰇓","𰇔","𰇕","𰇖","𰇗","𰇘","𰇙","𰇚","𰇛","𰇜","𰇝","𰇞","𰇟","𰇠","𰇡",
    "𰇢","𰇣","𰇤","𰇥","𰇦","𰇧","𰇨","𰇩","𰇪","𰇫","𰇬","𰇭","𰇮","𰇯","𰇰","𰇱","𰇲","𰇳","𰇴","𰇵","𰇶","𰇷","𰇸",
    "𰇹","𰇺","𰇻","𰇼","𰇽","𰇾","𰇿","𰊀","𰊁","𰊂","𰊃","𰊄","𰊅","𰊆","𰊇","𰊈","𰊉","𰊊","𰊋","𰊌","𰊍","𰊎","𰊏",
    "𰊐","𰊑","𰊒","𰊓","𰊔","𰊕","𰊖","𰊗","𰊘","𰊙","𰊚","𰊛","𰊜","𰊝","𰊞","𰊟","𰊠","𰊡","𰊢","𰊣","𰊤","𰊥","𰊦",
    "𰊧","𰊨","𰊩","𰊪","𰊫","𰊬","𰊭","𰊮","𰊯","𰊰","𰊱","𰊲","𰊳","𰊴","𰊵","𰊶","𰊷","𰊸","𰊹","𰊺","𰊻","𰊼","𰊽",
    "𰊾","𰊿","𰋀","𰋁","𰋂","𰋃","𰋄","𰋅","𰋆","𰋇","𰋈","𰋉","𰋊","𰋋","𰋌","𰋍","𰋎","𰋏","𰋐","𰋑","𰋒","𰋓","𰋔",
    "𰋕","𰋖","𰋗","𰋘","𰋙","𰋚","𰋛","𰋜","𰋝","𰋞","𰋟","𰋠","𰋡","𰋢","𰋣","𰋤","𰋥","𰋦","𰋧","𰋨","𰋩","𰋪","𰋫",
    "𰋬","𰋭","𰋮","𰋯","𰋰","𰋱","𰋲","𰋳","𰋴","𰋵","𰋶","𰋷","𰋸","𰋹","𰋺","𰋻","𰋼","𰋽","𰋾","𰋿","𰎀","𰎁","𰎂",
    "𰎃","𰎄","𰎅","𰎆","𰎇","𰎈","𰎉","𰎊","𰎋","𰎌","𰎍","𰎎","𰎏","𰎐","𰎑","𰎒","𰎓","𰎔","𰎕","𰎖","𰎗","𰎘","𰎙",
    "𰎚","𰎛","𰎜","𰎝","𰎞","𰎟","𰎠","𰎡","𰎢","𰎣","𰎤","𰎥","𰎦","𰎧","𰎨","𰎩","𰎪","𰎫","𰎬","𰎭","𰎮","𰎯","𰎰",
    "𰎱","𰎲","𰎳","𰎴","𰎵","𰎶","𰎷","𰎸","𰎹","𰎺","𰎻","𰎼","𰎽","𰎾","𰎿","𰏀","𰏁","𰏂","𰏃","𰏄","𰏅","𰏆","𰏇",
    "𰏈","𰏉","𰏊","𰏋","𰏌","𰏍","𰏎","𰏏","𰏐","𰏑","𰏒","𰏓","𰏔","𰏕","𰏖","𰏗","𰏘","𰏙","𰏚","𰏛","𰏜","𰏝","𰏞",
    "𰏟","𰏠","𰏡","𰏢","𰏣","𰏤","𰏥","𰏦","𰏧","𰏨","𰏩","𰏪","𰏫","𰏬","𰏭","𰏮","𰏯","𰏰","𰏱","𰏲","𰏳","𰏴","𰏵",
    "𰏶","𰏷","𰏸","𰏹","𰏺","𰏻","𰏼","𰏽","𰏾","𰏿">>

\* What the i-th of these units adds to D800, or to DC00.
SurrogateOffset(i) == 256 * ((i - 1) \div 128) + 128 + ((i - 1) % 128)

HexDigits == <<"0","1","2","3","4","5","6","7","8","9","A","B","C","D","E","F">>

\* int(h, 16)
RECURSIVE HexValue(_)
HexValue(h) ==
    IF Len(h) = 0 THEN 0
    ELSE 16 * HexValue(SubSeq(h, 1, Len(h) - 1))
            + (CHOOSE d \in 0..15 : HexDigits[d + 1] = SubSeq(h, Len(h), Len(h)))

\* ord(c): the code point of a character, which Python's comparison of
\* strings goes by.
CharRank(c) ==
    IF Len(c) > 2 THEN HexValue(SubSeq(c, 3, Len(c)))
    ELSE IF Len(c) = 2
    THEN LET hi == CHOOSE i \in DOMAIN HighSurrogates :
                      SubSeq(HighSurrogates[i], 1, 1) = SubSeq(c, 1, 1)
             lo == CHOOSE i \in DOMAIN LowSurrogates :
                      SubSeq(LowSurrogates[i], 2, 2) = SubSeq(c, 2, 2)
         IN  65536 + 1024 * SurrogateOffset(hi) + SurrogateOffset(lo)
    ELSE CodePointAt(CHOOSE i \in DOMAIN CodePoints : CodePoints[i] = c)

\* Python's a < b on strings
RECURSIVE StrLess(_, _)
StrLess(a, b) ==
    IF b = <<>> THEN FALSE
    ELSE IF a = <<>> THEN TRUE
    ELSE IF Head(a) = Head(b) THEN StrLess(Tail(a), Tail(b))
    ELSE CharRank(Head(a)) < CharRank(Head(b))

\* sorted(names)
RECURSIVE sorted(_)
sorted(S) ==
    IF S = {} THEN <<>>
    ELSE LET x == CHOOSE y \in S : \A z \in S \ {y} : StrLess(y, z)
         IN  <<x>> \o sorted(S \ {x})

\* Python's a < b on (org, team) tuples
PairLess(a, b) == StrLess(a[1], b[1]) \/ (a[1] = b[1] /\ StrLess(a[2], b[2]))

\* sorted(managed_teams)
RECURSIVE sorted_pairs(_)
sorted_pairs(S) ==
    IF S = {} THEN <<>>
    ELSE LET x == CHOOSE y \in S : \A z \in S \ {y} : PairLess(y, z)
         IN  <<x>> \o sorted_pairs(S \ {x})

---------------------------------------------------------------------------
(* utils/helpers.py: list_members_recursive, one provider call per step.
   loc.stack holds one frame per call of list_members_recursive that has
   not returned: the group, what it has collected, and the subgroups its
   loop has still to visit.  The topmost frame is the call that runs. *)

Frame(gid) == [ group_id |-> gid, collected |-> <<>>, subs |-> <<>> ]

\* A mutated return: the caller keeps what the call returned and forgets
\* what it had collected before.
RECURSIVE Returned_result_only(_, _)
Returned_result_only(stack, result) ==
    IF stack = <<>> THEN [ done |-> TRUE, stack |-> <<>>, result |-> result ]
    ELSE LET n == Len(stack)
             caller == stack[n]
         IN  IF caller.subs # <<>>
             THEN [ done |-> FALSE,
                    stack |-> Append([stack EXCEPT ![n].collected = result,
                                                   ![n].subs = Tail(caller.subs)],
                                     Frame(Head(caller.subs))),
                    result |-> <<>> ]
             ELSE Returned_result_only(SubSeq(stack, 1, n - 1), unique_users(result))

\* A call returns `result` to the frames below it: the caller extends its
\* collection and goes on to its next subgroup, or returns in turn.
RECURSIVE Returned(_, _)
Returned(stack, result) ==
    IF stack = <<>> THEN [ done |-> TRUE, stack |-> <<>>, result |-> result ]
    ELSE LET n == Len(stack)
             caller == stack[n]
             collected == caller.collected \o result
         IN  IF caller.subs # <<>>
             THEN [ done |-> FALSE,
                    stack |-> Append([stack EXCEPT ![n].collected = collected,
                                                   ![n].subs = Tail(caller.subs)],
                                     Frame(Head(caller.subs))),
                    result |-> <<>> ]
             ELSE Returned(SubSeq(stack, 1, n - 1), unique_users(collected))

\* A request notes that its call of kind ("M", "G", "P") on x raised.  A
\* call of kind "P" is the kc.get_group_by_path of get_group_id_by_path,
\* which reads the path stripped and lowercased.
Called_M(r, kcError, gid) ==
    [ Called(r, kcError) EXCEPT !.fails.M = IF kcError THEN @ \cup {gid} ELSE @ ]
Called_G(r, kcError, gid) ==
    [ Called(r, kcError) EXCEPT !.fails.G = IF kcError THEN @ \cup {gid} ELSE @ ]
Called_P(r, kcError, path) ==
    [ Called(r, kcError) EXCEPT
        !.fails.P = IF kcError THEN @ \cup {Lower(Strip(path))} ELSE @ ]

---------------------------------------------------------------------------
(* routers/user.py + services/user_service.py: list_users *)

\* enrich_user_with_groups(kc, user)
\* kcError is whether kc.get_user_groups raises KeycloakError; it raises for
\* a user the provider does not know.
enrich_user_with_groups(G, M, U, uid, kcError) ==
    [ id |-> uid,
      groups |-> IF kcError \/ uid \notin { u.id : u \in U } THEN <<>>
                 ELSE kc_get_user_groups(G, M, uid) ]

\* A mutated scope inference: only the first organization or team is listed.
unscoped_scopes_first_only(groups) ==
    LET admin_orgs == parse_admin_orgs(LowerAll(groups))
        managed_teams == parse_managed_teams(LowerAll(groups))
    IN  IF admin_orgs # {} THEN << Path1(sorted(admin_orgs)[1]) >>
        ELSE IF managed_teams # {}
        THEN << Path2(sorted_pairs(managed_teams)[1][1], sorted_pairs(managed_teams)[1][2]) >>
        ELSE <<>>

\* The paths an unscoped listing of a caller who is not super-admin walks:
\* for org in sorted(admin_orgs): f"/{org}", else
\* for (org, team) in sorted(managed_teams): f"/{org}/{team}"
unscoped_scopes(groups) ==
    LET admin_orgs == parse_admin_orgs(LowerAll(groups))
        managed_teams == parse_managed_teams(LowerAll(groups))
    IN  IF admin_orgs # {}
        THEN [ i \in 1..Cardinality(admin_orgs) |-> Path1(sorted(admin_orgs)[i]) ]
        ELSE [ i \in 1..Cardinality(managed_teams) |->
                 Path2(sorted_pairs(managed_teams)[i][1], sorted_pairs(managed_teams)[i][2]) ]

\* return [enrich_user_with_groups(kc, u) for u in users]
StartEnrich(r, users) ==
    IF users = <<>> THEN Done(r, [status |-> 200, users |-> <<>>])
    ELSE [r EXCEPT !.pc = "enrich", !.loc.users = users, !.loc.enriched = <<>>]

\* The outermost list_members_recursive returned `result` to list_users.
Listed_Members(r, result) ==
    IF Truthy(r.args.org_name) THEN StartEnrich(r, result)
    ELSE LET all_users == r.loc.all_users \o result
             rest == Tail(r.loc.scopes)
         IN  IF rest = <<>>
             THEN StartEnrich([r EXCEPT !.loc.all_users = all_users, !.loc.scopes = rest],
                              unique_users(all_users))
             ELSE [r EXCEPT !.pc = "scope", !.loc.all_users = all_users,
                            !.loc.scopes = rest]

ListUsers_Begin(p, Inputs) ==
    /\ CanBegin(p)
    /\ \E a \in Inputs :
          LET r0 == NewReq(p, "list_users", a)
              scope == list_users_scope(a.org_name, a.team_name, a.groups)
          IN  IF scope.status # 200 THEN Set(p, Done(r0, scope))
              ELSE IF Truthy(a.org_name)
              THEN Set(p, [r0 EXCEPT !.pc = "resolve"])
              ELSE IF is_super_lowered(a.groups)
              THEN Set(p, [r0 EXCEPT !.pc = "get_users"])
              ELSE Set(p, [r0 EXCEPT !.pc = "scope",
                                     !.loc.scopes = unscoped_scopes(a.groups)])
    /\ nReq' = nReq + 1
    /\ UNCHANGED <<kcVars, nFail, histVars, pureVars, cookies>>

\* team_group_id = get_group_id_by_path(kc, f"/{org_name}/{team_name}")
\* org_group_id = get_group_id_by_path(kc, f"/{org_name}")
ListUsers_Resolve(p) ==
    /\ req[p].op = "list_users"
    /\ req[p].pc = "resolve"
    /\ \E kcError \in Faults :
          LET a == req[p].args
              path == IF Truthy(a.team_name) THEN Path2(a.org_name, a.team_name)
                      ELSE Path1(a.org_name)
              r == Called_P(req[p], kcError, path)
              gid == get_group_id_by_path(kcGroups, path, kcError)
          IN  /\ Count(kcError)
              /\ IF gid = 0
                 THEN Set(p, Done(r, HTTPException(404,
                                 IF Truthy(a.team_name) THEN <<"Team not found">>
                                 ELSE <<"Organization not found">>)))
                 ELSE Set(p, [r EXCEPT !.pc = "members", !.loc.stack = << Frame(gid) >>])
    /\ UNCHANGED <<kcVars, nReq, histVars, pureVars, cookies>>

\* users = kc.get_users()
ListUsers_GetUsers(p) ==
    /\ req[p].op = "list_users"
    /\ req[p].pc = "get_users"
    /\ \E kcError \in Faults :
          LET r == Called(req[p], kcError)
          IN  /\ Count(kcError)
              /\ IF kcError THEN Set(p, Done(r, Propagated("get_users")))
                 ELSE Set(p, StartEnrich(r, kc_get_users(kcUsers)))
    /\ UNCHANGED <<kcVars, nReq, histVars, pureVars, cookies>>

\* gid = get_group_id_by_path(kc, path); if gid: all_users.extend(...)
ListUsers_Scope(p) ==
    /\ req[p].op = "list_users"
    /\ req[p].pc = "scope"
    /\ \E kcError \in Faults :
          LET path == Head(req[p].loc.scopes)
              r == Called_P(req[p], kcError, path)
              gid == get_group_id_by_path(kcGroups, path, kcError)
          IN  /\ Count(kcError)
              /\ IF gid = 0 THEN Set(p, Listed_Members(r, <<>>))
                 ELSE Set(p, [r EXCEPT !.pc = "members", !.loc.stack = << Frame(gid) >>])
    /\ UNCHANGED <<kcVars, nReq, histVars, pureVars, cookies>>

\* try: collected.extend(kc.get_group_members(group_id))
\* except KeycloakError: pass
ListMembersRecursive_Members(p) ==
    /\ req[p].op = "list_users"
    /\ req[p].pc = "members"
    /\ \E kcError \in Faults :
          LET n == Len(req[p].loc.stack)
              gid == req[p].loc.stack[n].group_id
              r == Called_M(req[p], kcError, gid)
              members == IF kcError \/ gid \notin KcIds(kcGroups) THEN <<>>
                         ELSE kc_get_group_members(kcMembers, gid)
          IN  /\ Count(kcError)
              /\ Set(p, [r EXCEPT !.pc = "group",
                                  !.loc.stack[n].collected = members])
    /\ UNCHANGED <<kcVars, nReq, histVars, pureVars, cookies>>

\* try: group = kc.get_group(group_id)
\*      for sg in group.get("subGroups", []) or []:
\*          collected.extend(list_members_recursive(kc, sg["id"]))
\* except KeycloakError: pass
\* return unique_users(collected)
ListMembersRecursive_Group(p) ==
    /\ req[p].op = "list_users"
    /\ req[p].pc = "group"
    /\ \E kcError \in Faults :
          LET stack == req[p].loc.stack
              n == Len(stack)
              gid == stack[n].group_id
              r == Called_G(req[p], kcError, gid)
              subs == IF kcError \/ gid \notin KcIds(kcGroups) THEN <<>>
                      ELSE kc_sub_groups(kcGroups, gid)
              back == Returned(SubSeq(stack, 1, n - 1),
                               unique_users(stack[n].collected))
          IN  /\ Count(kcError)
              /\ IF subs # <<>>
                 THEN Set(p, [r EXCEPT !.pc = "members",
                                       !.loc.stack = Append([stack EXCEPT ![n].subs = Tail(subs)],
                                                            Frame(Head(subs)))])
                 ELSE IF ~ back.done
                 THEN Set(p, [r EXCEPT !.pc = "members", !.loc.stack = back.stack])
                 ELSE Set(p, Listed_Members([r EXCEPT !.loc.stack = <<>>], back.result))
    /\ UNCHANGED <<kcVars, nReq, histVars, pureVars, cookies>>

\* enrich_user_with_groups(kc, u) for the next user of the listing
ListUsers_Enrich(p) ==
    /\ req[p].op = "list_users"
    /\ req[p].pc = "enrich"
    /\ \E kcError \in Faults :
          LET r == Called(req[p], kcError)
              uid == r.loc.users[Len(r.loc.enriched) + 1]
              enriched == Append(r.loc.enriched,
                                 enrich_user_with_groups(kcGroups, kcMembers, kcUsers,
                                                         uid, kcError))
          IN  /\ Count(kcError)
              /\ IF Len(enriched) = Len(r.loc.users)
                 THEN Set(p, Done([r EXCEPT !.loc.enriched = enriched],
                                  [status |-> 200, users |-> enriched]))
                 ELSE Set(p, [r EXCEPT !.loc.enriched = enriched])
    /\ UNCHANGED <<kcVars, nReq, histVars, pureVars, cookies>>

---------------------------------------------------------------------------
(* utils/helpers.py: is_user_in_scope; routers/user.py +
   services/user_service.py: get_user *)

\* A mutated scope test: a managed team opens its whole organization.
is_user_in_scope_whole_org(t_groups, scope_orgs, scope_teams) ==
    /\ scope_orgs # {} \/ scope_teams # {}
    /\ \E i \in DOMAIN t_groups :
          /\ Parts(t_groups[i]) # <<>>
          /\ \/ Parts(t_groups[i])[1] \in scope_orgs
             \/ Parts(t_groups[i])[1] \in { ot[1] : ot \in scope_teams }

\* A mutated scope test: whoever has a scope may see every user.
is_user_in_scope_any_user(t_groups, scope_orgs, scope_teams) ==
    scope_orgs # {} \/ scope_teams # {}

\* is_user_in_scope after its provider call: t_groups is what
\* kc.get_user_groups(target_user_id) answered.
is_user_in_scope(t_groups, scope_orgs, scope_teams) ==
    IF scope_orgs = {} /\ scope_teams = {} THEN FALSE
    ELSE \E i \in DOMAIN t_groups :
            LET parts == Parts(t_groups[i])
            IN  /\ parts # <<>>
                /\ \/ parts[1] \in scope_orgs
                   \/ /\ Len(parts) >= 2
                      /\ <<parts[1], parts[2]>> \in scope_teams

GetUser_Begin(p, Inputs) ==
    /\ CanBegin(p)
    /\ \E a \in Inputs :
          LET r0 == [ NewReq(p, "get_user", a) EXCEPT !.loc.user_id = a.user_id ]
          IN  IF is_super_raw(a.groups) THEN Set(p, [r0 EXCEPT !.pc = "fetch"])
              ELSE IF parse_admin_orgs(a.groups) = {} /\ parse_managed_teams(a.groups) = {}
              THEN Set(p, Done(r0, HTTPException(403, <<"Not allowed to view this user">>)))
              ELSE Set(p, [r0 EXCEPT !.pc = "scope"])
    /\ nReq' = nReq + 1
    /\ UNCHANGED <<kcVars, nFail, histVars, pureVars, cookies>>

\* try: t_groups = kc.get_user_groups(target_user_id) or []
\* except KeycloakError: return False
GetUser_Scope(p) ==
    /\ req[p].op = "get_user"
    /\ req[p].pc = "scope"
    /\ \E kcError \in Faults :
          LET r == Called(req[p], kcError)
              uid == r.loc.user_id
              raised == kcError \/ uid \notin { u.id : u \in kcUsers }
              t_groups == IF raised THEN <<>>
                          ELSE kc_get_user_groups(kcGroups, kcMembers, uid)
          IN  /\ Count(kcError)
              /\ IF \/ raised
                    \/ ~ is_user_in_scope(t_groups, parse_admin_orgs(r.args.groups),
                                          parse_managed_teams(r.args.groups))
                 THEN Set(p, Done(r, HTTPException(403, <<"Not allowed to view this user">>)))
                 ELSE Set(p, [r EXCEPT !.pc = "fetch"])
    /\ UNCHANGED <<kcVars, nReq, histVars, pureVars, cookies>>

\* try: user = kc.get_user(user_id)
\* except KeycloakError: raise HTTPException(404, "User not found")
GetUser_Fetch(p) ==
    /\ req[p].op = "get_user"
    /\ req[p].pc = "fetch"
    /\ \E kcError \in Faults :
          LET r == Called(req[p], kcError)
          IN  /\ Count(kcError)
              /\ IF kcError \/ r.loc.user_id \notin { u.id : u \in kcUsers }
                 THEN Set(p, Done(r, HTTPException(404, <<"User not found">>)))
                 ELSE Set(p, [r EXCEPT !.pc = "enrich"])
    /\ UNCHANGED <<kcVars, nReq, histVars, pureVars, cookies>>

\* return UserService.enrich_user_with_groups(kc, user)
GetUser_Enrich(p) ==
    /\ req[p].op = "get_user"
    /\ req[p].pc = "enrich"
    /\ \E kcError \in Faults :
          LET r == Called(req[p], kcError)
          IN  /\ Count(kcError)
              /\ Set(p, Done(r, [status |-> 200,
                                 user |-> enrich_user_with_groups(kcGroups, kcMembers,
                                              kcUsers, r.loc.user_id, kcError)]))
    /\ UNCHANGED <<kcVars, nReq, histVars, pureVars, cookies>>

---------------------------------------------------------------------------
(* routers/user.py + services/user_service.py: create_user.  A payload is
   [email, has_orgs, orgs]: has_orgs is FALSE for an omitted (None) orgs
   field. *)

\* normalize_kc_list(values), for a list that was given:
\* [v.strip().lower() for v in values if v is not None]
normalize_kc_list(values) ==
    LET given == SelectSeq(values, LAMBDA v : v # None)
    IN  [ i \in DOMAIN given |-> Lower(Strip(given[i])) ]

\* A mutated create_user: a caller with no admin_orgs is let through.
create_user_orgs_any_caller(payload, groups) ==
    [ status |-> 200,
      requested_orgs |-> IF payload.has_orgs THEN normalize_kc_list(payload.orgs)
                         ELSE <<>> ]

\* create_user up to its first provider call: the caller's authority and
\* the orgs the new user is to join.
create_user_orgs(payload, groups) ==
    LET admin_orgs == parse_admin_orgs(LowerAll(groups))
        given == IF payload.has_orgs THEN normalize_kc_list(payload.orgs) ELSE <<>>
    IN  IF is_super_lowered(groups) THEN [ status |-> 200, requested_orgs |-> given ]
        ELSE IF admin_orgs = {}
        THEN HTTPException(403, <<"Only super-admin or org-admin can create users">>)
        ELSE IF ~ payload.has_orgs
        THEN [ status |-> 200, requested_orgs |-> sorted(admin_orgs) ]
        ELSE IF \E i \in DOMAIN given : given[i] \notin admin_orgs
        THEN HTTPException(403, <<"Not admin of org(s)">>)
        ELSE [ status |-> 200, requested_orgs |-> given ]

\* kc.create_user(...): the provider refuses an email it already has.
kc_create_user_rejected(U, email) == \E u \in U : u.username = email

\* The id the provider gives a created user.
NewUserId == "u-new"

CreateUser_Begin(p, Inputs) ==
    /\ CanBegin(p)
    /\ \E a \in Inputs :
          LET r0 == NewReq(p, "create_user", a)
              orgs == create_user_orgs(a.payload, a.groups)
          IN  IF orgs.status # 200 THEN Set(p, Done(r0, orgs))
              ELSE Set(p, [r0 EXCEPT
                             !.pc = IF orgs.requested_orgs # <<>> THEN "ensure" ELSE "create",
                             !.loc.requested_orgs = orgs.requested_orgs,
                             !.loc.k = 1])
    /\ nReq' = nReq + 1
    /\ UNCHANGED <<kcVars, nFail, histVars, pureVars, cookies>>

\* ensure_orgs_exist: if not get_group_id_by_path(kc, f"/{org}"): raise 404
CreateUser_Ensure(p) ==
    /\ req[p].op = "create_user"
    /\ req[p].pc = "ensure"
    /\ \E kcError \in Faults :
          LET r == Called(req[p], kcError)
              org == r.loc.requested_orgs[r.loc.k]
              gid == get_group_id_by_path(kcGroups, Path1(org), kcError)
          IN  /\ Count(kcError)
              /\ IF gid = 0
                 THEN Set(p, Done(r, HTTPException(404, <<"Organization not found", org>>)))
                 ELSE IF r.loc.k < Len(r.loc.requested_orgs)
                 THEN Set(p, [r EXCEPT !.loc.k = @ + 1])
                 ELSE Set(p, [r EXCEPT !.pc = "create", !.loc.k = 1])
    /\ UNCHANGED <<kcVars, nReq, histVars, pureVars, cookies>>

\* new_user_id = kc.create_user({"email": (payload.get('email') or "").strip().lower(), ...})
\* KeycloakError -> 409
CreateUser_Create(p) ==
    /\ req[p].op = "create_user"
    /\ req[p].pc = "create"
    /\ \E kcError \in Faults :
          LET r == Called(req[p], kcError)
              email == IF Truthy(r.args.payload.email)
                       THEN Lower(Strip(r.args.payload.email))
                       ELSE <<>>
          IN  /\ Count(kcError)
              /\ IF kcError \/ kc_create_user_rejected(kcUsers, email)
                 THEN /\ Set(p, Done(r, HTTPException(409, <<"User likely exists">>)))
                      /\ UNCHANGED kcVars
                 ELSE /\ kcUsers' = kcUsers \cup { [id |-> NewUserId, username |-> email] }
                      /\ IF r.loc.requested_orgs = <<>>
                         THEN Set(p, Done([r EXCEPT !.loc.user_id = NewUserId],
                                          [status |-> 201, detail |-> <<"User created">>,
                                           id |-> NewUserId, added_to_orgs |-> <<>>]))
                         ELSE Set(p, [r EXCEPT !.pc = "lookup", !.loc.user_id = NewUserId])
                      /\ UNCHANGED <<kcGroups, kcMembers, kcNextId>>
    /\ UNCHANGED <<nReq, histVars, pureVars, cookies>>

\* group_id = get_group_id_by_path(kc, f"/{org}/user"); if not group_id: raise 500
CreateUser_Lookup(p) ==
    /\ req[p].op = "create_user"
    /\ req[p].pc = "lookup"
    /\ \E kcError \in Faults :
          LET r == Called(req[p], kcError)
              org == r.loc.requested_orgs[r.loc.k]
              gid == get_group_id_by_path(kcGroups, Path2(org, s_user), kcError)
          IN  /\ Count(kcError)
              /\ IF gid = 0
                 THEN Set(p, Done(r, HTTPException(500, <<"missing '/user' subgroup", org>>)))
                 ELSE Set(p, [r EXCEPT !.pc = "add", !.loc.group_id = gid])
    /\ UNCHANGED <<kcVars, nReq, histVars, pureVars, cookies>>

\* kc.group_user_add(new_user_id, group_id); added_to.append(org)
\* KeycloakError -> 400
CreateUser_Add(p) ==
    /\ req[p].op = "create_user"
    /\ req[p].pc = "add"
    /\ \E kcError \in Faults :
          LET r == Called(req[p], kcError)
              org == r.loc.requested_orgs[r.loc.k]
              added_to == Append(r.loc.added_to, org)
          IN  /\ Count(kcError)
              /\ IF \/ kcError
                    \/ r.loc.group_id \notin KcIds(kcGroups)
                    \/ r.loc.user_id \notin { u.id : u \in kcUsers }
                 THEN /\ Set(p, Done(r, HTTPException(400, <<"Failed to add user to org", org>>)))
                      /\ UNCHANGED kcVars
                 ELSE /\ kcMembers' = kcMembers \cup { <<r.loc.user_id, r.loc.group_id>> }
                      /\ IF r.loc.k < Len(r.loc.requested_orgs)
                         THEN Set(p, [r EXCEPT !.pc = "lookup", !.loc.k = @ + 1,
                                               !.loc.added_to = added_to])
                         ELSE Set(p, Done([r EXCEPT !.loc.added_to = added_to],
                                          [status |-> 201, detail |-> <<"User created">>,
                                           id |-> r.loc.user_id, added_to_orgs |-> added_to]))
                      /\ UNCHANGED <<kcGroups, kcUsers, kcNextId>>
    /\ UNCHANGED <<nReq, histVars, pureVars, cookies>>

---------------------------------------------------------------------------
(* routers/user.py + services/user_service.py: delete_user *)

DeleteUser_Begin(p, Inputs) ==
    /\ CanBegin(p)
    /\ \E a \in Inputs :
          LET r0 == [ NewReq(p, "delete_user", a) EXCEPT !.loc.user_id = a.user_id ]
              gate == check_super_admin(a.groups)
          IN  IF gate.status # 200 THEN Set(p, Done(r0, gate))
              ELSE Set(p, [r0 EXCEPT !.pc = "delete"])
    /\ nReq' = nReq + 1
    /\ UNCHANGED <<kcVars, nFail, histVars, pureVars, cookies>>

\* kc.delete_user(user_id); KeycloakError -> 404
DeleteUser_Delete(p) ==
    /\ req[p].op = "delete_user"
    /\ req[p].pc = "delete"
    /\ \E kcError \in Faults :
          LET r == Called(req[p], kcError)
              uid == r.loc.user_id
          IN  /\ Count(kcError)
              /\ IF kcError \/ uid \notin { u.id : u \in kcUsers }
                 THEN /\ Set(p, Done(r, HTTPException(404, <<"User not found">>)))
                      /\ UNCHANGED kcVars
                 ELSE /\ kcUsers' = KcUsersAfterDelete(kcUsers, uid)
                      /\ kcMembers' = KcMembersAfterUserDelete(kcMembers, uid)
                      /\ Set(p, Done(r, [status |-> 200, detail |-> <<"User deleted">>]))
                      /\ UNCHANGED <<kcGroups, kcNextId>>
    /\ UNCHANGED <<nReq, histVars, pureVars, cookies>>

---------------------------------------------------------------------------
(* SpecUsers: the five requests of the user router in a realm of two
   organizations.  A client issues any sequence of listings, lookups and
   creations, one provider call per step; a second caller's deletions run
   between those steps. *)

s_dan == <<"d","a","n">>
s_new == <<"n","e","w">>
s_zeta == <<"z","e","t","a">>

RealmGroups ==
    { [id |-> 1, name |-> s_acme, parent |-> 0],
      [id |-> 2, name |-> s_admin, parent |-> 1],
      [id |-> 3, name |-> s_user, parent |-> 1],
      [id |-> 4, name |-> s_pay, parent |-> 1],
      [id |-> 5, name |-> s_manager, parent |-> 4],
      [id |-> 6, name |-> s_member, parent |-> 4],
      [id |-> 7, name |-> s_beta, parent |-> 0],
      [id |-> 8, name |-> s_admin, parent |-> 7],
      [id |-> 9, name |-> s_user, parent |-> 7],
      [id |-> 10, name |-> s_super_admin, parent |-> 0] }

RealmUsers ==
    { [id |-> "u-bob", username |-> s_bob],
      [id |-> "u-eve", username |-> s_eve],
      [id |-> "u-dan", username |-> s_dan] }

\* The memberships the realm starts with.
Realms ==
    { { <<"u-bob", 5>>, <<"u-bob", 3>>, <<"u-bob", 6>>,
        <<"u-eve", 2>>, <<"u-eve", 9>>, <<"u-dan", 10>>, <<"u-dan", 9>> },
      { <<"u-bob", 5>>, <<"u-eve", 2>> },
      { <<"u-bob", 6>>, <<"u-eve", 9>>, <<"u-dan", 10>> } }

BetaAdminPayManager == << Path2(s_beta, s_admin), Path3(s_acme, s_pay, s_manager) >>
TwoOrgAdmin == << Path2(s_beta, s_admin), Path2(s_acme, s_admin) >>
SuperAdminUpper == << <<"/","S","u","p","e","r","-","A","d","m","i","n">> >>
PayMember == << Path3(s_acme, s_pay, s_member) >>

\* The groups claims of the callers.
UserCallers ==
    { SuperAdmin, SuperAdminUpper, AcmeAdmin, TwoOrgAdmin, BetaAdminPayManager,
      PayManager, PayMember }

\* The user ids a lookup asks for: the realm's users and an unknown one.
Targets == { "u-bob", "u-eve", "u-zed" }

\* The payloads of create_user: orgs omitted, empty, one or two orgs, a
\* padded name, a None entry, an org that does not exist, an email already
\* taken, no email.
UserPayloads ==
    [ email : { s_new }, has_orgs : { FALSE }, orgs : { <<>> } ]
    \cup [ email : { s_new }, has_orgs : { TRUE },
           orgs : { <<>>, << s_Acme >>, << s_beta >>, << s_acme, s_beta >>,
                    << s_zeta >>, << None >> } ]
    \cup [ email : { s_bob, None }, has_orgs : { TRUE }, orgs : { << s_acme >> } ]

SeqListUsers ==
    [ groups : { SuperAdmin, PayManager }, org_name : { None }, team_name : { None } ]
    \cup [ groups : { PayManager }, org_name : { s_acme }, team_name : { s_pay } ]
SeqGetUser == [ groups : { AcmeAdmin, PayManager }, user_id : { "u-bob", NewUserId } ]
SeqCreateUser ==
    [ groups : { AcmeAdmin }, payload : UserPayloads ]
    \cup [ groups : { TwoOrgAdmin },
           payload : { q \in UserPayloads : ~ q.has_orgs } ]
    \cup [ groups : { SuperAdmin },
           payload : { q \in UserPayloads : q.orgs \in { << s_Acme >>, << s_zeta >> } } ]
    \cup [ groups : { PayManager, PayMember },
           payload : { q \in UserPayloads : q.orgs \in { <<>>, << s_Acme >> } } ]
SeqDeleteUser == [ groups : { SuperAdmin, AcmeAdmin }, user_id : { "u-bob" } ]

\* The process of a second caller, whose requests run between the steps of
\* the client's.
Other == "p2"

InitUsers ==
    /\ kcGroups = RealmGroups
    /\ kcUsers = RealmUsers
    /\ kcMembers \in Realms
    /\ kcNextId = 11
    /\ req = [p \in Procs |-> IdleReq]
    /\ nReq = 0
    /\ nFail = 0
    /\ hComplete = { 1, 4, 7 }
    /\ hRoleDeleted = {}
    /\ PureIdle

NextUsers ==
    \/ ListUsers_Begin(Client, SeqListUsers)
    \/ ListUsers_Resolve(Client)
    \/ ListUsers_GetUsers(Client)
    \/ ListUsers_Scope(Client)
    \/ ListMembersRecursive_Members(Client)
    \/ ListMembersRecursive_Group(Client)
    \/ ListUsers_Enrich(Client)
    \/ GetUser_Begin(Client, SeqGetUser)
    \/ GetUser_Scope(Client)
    \/ GetUser_Fetch(Client)
    \/ GetUser_Enrich(Client)
    \/ CreateUser_Begin(Client, SeqCreateUser)
    \/ CreateUser_Ensure(Client)
    \/ CreateUser_Create(Client)
    \/ CreateUser_Lookup(Client)
    \/ CreateUser_Add(Client)
    \/ DeleteUser_Begin(Other, SeqDeleteUser)
    \/ DeleteUser_Delete(Other)

SpecUsers == InitUsers /\ [][NextUsers]_vars

---------------------------------------------------------------------------
(* SpecListing: one client issuing any sequence of listings and lookups in
   the same realm, which no request changes *)

ListListUsers ==
    [ groups : { SuperAdmin, SuperAdminUpper, TwoOrgAdmin, BetaAdminPayManager,
                 PayManager, PayMember },
      org_name : { None }, team_name : { None } ]
    \cup [ groups : { AcmeAdmin, PayManager }, org_name : { s_acme },
           team_name : { None, s_pay } ]
    \cup [ groups : { AcmeAdmin }, org_name : { None, s_beta, s_Acme },
           team_name : { s_pay } ]
    \cup [ groups : { SuperAdmin, AcmeAdmin }, org_name : { s_Acme, s_zeta },
           team_name : { None } ]

ListGetUser == [ groups : UserCallers, user_id : Targets ]

NextListing ==
    \/ ListUsers_Begin(Client, ListListUsers)
    \/ ListUsers_Resolve(Client)
    \/ ListUsers_GetUsers(Client)
    \/ ListUsers_Scope(Client)
    \/ ListMembersRecursive_Members(Client)
    \/ ListMembersRecursive_Group(Client)
    \/ ListUsers_Enrich(Client)
    \/ GetUser_Begin(Client, ListGetUser)
    \/ GetUser_Scope(Client)
    \/ GetUser_Fetch(Client)
    \/ GetUser_Enrich(Client)

SpecListing == InitUsers /\ [][NextListing]_vars

---------------------------------------------------------------------------
(* Listing users (SpecListing) *)

\* The request the client is in, or has just finished.
UserReq == req[Client]

Finished(op) == UserReq.op = op /\ UserReq.pc = "done"

\* The groups a traversal from ids reaches when the children of a group
\* whose fetch fails stay unknown.
RECURSIVE ReachedFrom(_, _, _)
ReachedFrom(G, ids, failG) ==
    LET more == ids \cup { g.id : g \in { h \in G : h.parent \in ids \ failG } }
    IN  IF more = ids THEN ids ELSE ReachedFrom(G, more, failG)

NoDuplicates(list) == \A i, j \in DOMAIN list : list[i] = list[j] => i = j
Elements(list) == { list[i] : i \in DOMAIN list }

\* The ids a listing holds, in its order.
ListedIds(res) == [ i \in DOMAIN res.users |-> res.users[i].id ]

\* The users a tolerant traversal from the group at path finds; the path
\* is read as get_group_id_by_path reads it.
MembersUnder(path, fails) ==
    LET read == Lower(Strip(path))
        root == kc_get_group_by_path(kcGroups, read)
    IN  IF root = 0 \/ read \in fails.P THEN {}
        ELSE { m[1] : m \in { e \in kcMembers :
                  e[2] \in ReachedFrom(kcGroups, {root}, fails.G) \ fails.M } }

\* The path a listing with an org_name resolves, as get_group_id_by_path
\* reads it.
ListedPath(a) ==
    Lower(Strip(IF Truthy(a.team_name) THEN Path2(a.org_name, a.team_name)
                ELSE Path1(a.org_name)))

\* A listing with an org_name whose outermost list_members_recursive has
\* returned: its result is in loc.users.
MembersListed ==
    /\ UserReq.op = "list_users"
    /\ Truthy(UserReq.args.org_name)
    /\ \/ UserReq.pc = "enrich"
       \/ UserReq.pc = "done" /\ UserReq.res.status = 200

\* C25: whichever member fetches and group fetches fail, list_members_recursive
\* returns a list and the request does not end in an error; the list holds
\* exactly the members of the groups that the traversal reaches through
\* readable groups and whose own member fetch succeeds, so a failing group
\* adds nothing and no readable group is lost.
C25_ListingToleratesFailures ==
    /\ MembersListed =>
          Elements(UserReq.loc.users) =
             MembersUnder(ListedPath(UserReq.args), UserReq.fails)
    /\ ( /\ Finished("list_users")
         /\ UserReq.fails.M \cup UserReq.fails.G # {} )
       => UserReq.res.status = 200

\* C25 witness: with the group fetch of /acme/pay failing, the listing of
\* /acme lost the manager bob and kept the admin eve.
C25_Witness ==
    /\ Finished("list_users")
    /\ UserReq.args.org_name = s_acme
    /\ UserReq.args.team_name = None
    /\ UserReq.fails = [ M |-> {}, G |-> { 4 }, P |-> {} ]
    /\ kcMembers = { <<"u-bob", 5>>, <<"u-eve", 2>> }
    /\ UserReq.res.status = 200
    /\ ListedIds(UserReq.res) = << "u-eve" >>

Unscoped(a) == a.org_name = None /\ a.team_name = None

\* C21: an unscoped list_users gives a super-admin every user (unless the
\* provider's get_users itself fails); otherwise a caller with admin_orgs
\* exactly the users under those organizations; otherwise a caller with
\* managed_teams exactly the users under those teams; otherwise 403.
C21_UnscopedListing ==
    (Finished("list_users") /\ Unscoped(UserReq.args)) =>
        LET groups == UserReq.args.groups
            res == UserReq.res
            admin_orgs == parse_admin_orgs(groups)
            managed_teams == parse_managed_teams(groups)
        IN  IF IsSuperAdmin(groups)
            THEN IF res.status = 200
                 THEN Elements(ListedIds(res)) = { u.id : u \in kcUsers }
                 ELSE UserReq.calls = 1 /\ UserReq.injected
            ELSE IF admin_orgs # {}
            THEN /\ res.status = 200
                 /\ Elements(ListedIds(res)) =
                       UNION { MembersUnder(Path1(o), UserReq.fails) : o \in admin_orgs }
            ELSE IF managed_teams # {}
            THEN /\ res.status = 200
                 /\ Elements(ListedIds(res)) =
                       UNION { MembersUnder(Path2(ot[1], ot[2]), UserReq.fails) :
                                 ot \in managed_teams }
            ELSE res.status = 403

\* C21 witness: the admin of beta who also manages acme/pay listed without
\* a scope and got the users under /beta only, though bob is in acme/pay.
C21_Witness ==
    /\ Finished("list_users")
    /\ Unscoped(UserReq.args)
    /\ UserReq.args.groups = BetaAdminPayManager
    /\ ~ UserReq.injected
    /\ kcMembers = { <<"u-bob", 6>>, <<"u-eve", 9>>, <<"u-dan", 10>> }
    /\ ListedIds(UserReq.res) = << "u-eve" >>

\* The caller holds the authority a scoped listing asks for (section 4.4).
ListingAuthorized(org_name, team_name, groups) ==
    IF team_name = None THEN OrgAdminPredicate(org_name, groups)
    ELSE TeamManagerPredicate(org_name, team_name, groups)

\* The path of the group a scoped listing names, with normalized names.
ScopePath(org_name, team_name) ==
    IF team_name = None THEN Path1(NormalParam(org_name))
    ELSE Path2(NormalParam(org_name), NormalParam(team_name))

\* C22: a listing scoped to an org, or to an org and a team, by a caller
\* who holds the authority for it returns, when the group exists and its
\* lookup is answered, exactly the users who are members of the group or of
\* a group below it, each id once.
C22_ScopedListingExact ==
    ( /\ Finished("list_users")
      /\ UserReq.args.org_name # None
      /\ UserReq.fails.P = {}
      /\ ListingAuthorized(UserReq.args.org_name, UserReq.args.team_name,
                           UserReq.args.groups)
      /\ Resolves(ScopePath(UserReq.args.org_name, UserReq.args.team_name)) )
    => /\ UserReq.res.status = 200
       /\ NoDuplicates(ListedIds(UserReq.res))
       /\ Elements(ListedIds(UserReq.res)) =
             MembersUnder(ScopePath(UserReq.args.org_name, UserReq.args.team_name),
                          UserReq.fails)

---------------------------------------------------------------------------
(* Single-user lookup (SpecListing) *)

\* The paths of the groups a user is in.
PathsOf(uid) == { KcPath(kcGroups, m[2]) : m \in { e \in kcMembers : e[1] = uid } }

\* Section 4.4: the target's memberships meet the caller's admin_orgs at the
\* org level or the caller's managed_teams at the team level.
Reachable(uid, groups) ==
    \E path \in PathsOf(uid) :
       \/ /\ SegmentCount(path) >= 1
          /\ NthSegment(path, 1) \in parse_admin_orgs(groups)
       \/ /\ SegmentCount(path) >= 2
          /\ <<NthSegment(path, 1), NthSegment(path, 2)>> \in parse_managed_teams(groups)

\* C23: when the caller is not super-admin and the provider answers,
\* get_user returns the target iff one of the target's group paths has its
\* first segment in the caller's admin_orgs or its first two segments in
\* the caller's managed_teams; otherwise it answers 403 without user data.
C23_GetUserByReachability ==
    ( /\ Finished("get_user")
      /\ ~ IsSuperAdmin(UserReq.args.groups)
      /\ ~ UserReq.injected )
    => IF Reachable(UserReq.args.user_id, UserReq.args.groups)
       THEN /\ UserReq.res.status = 200
            /\ UserReq.res.user.id = UserReq.args.user_id
       ELSE /\ UserReq.res.status = 403
            /\ "user" \notin DOMAIN UserReq.res

\* C23 witness: the manager of acme/pay fetched bob, a member of that team,
\* while bob was in no other group.
C23_Witness ==
    /\ Finished("get_user")
    /\ UserReq.args.groups = PayManager
    /\ UserReq.args.user_id = "u-bob"
    /\ kcMembers = { <<"u-bob", 6>>, <<"u-eve", 9>>, <<"u-dan", 10>> }
    /\ UserReq.res.status = 200

---------------------------------------------------------------------------
(* Lookup and unscoped listing compared (SpecListing) *)

\* The users an unscoped listing returned; none when it was denied.
Listed(res) == IF res.status = 200 THEN Elements(ListedIds(res)) ELSE {}

\* A lookup by a caller who is not super-admin, right after the same
\* caller's unscoped listing (kept in listed), the provider answering every
\* call of both.
LookupAfterListing ==
    /\ Finished("get_user")
    /\ ~ UserReq.injected
    /\ ~ IsSuperAdmin(UserReq.args.groups)
    /\ UserReq.listed.status \in { 200, 403 }

\* C27 as claimed: for a caller who is not super-admin, the users get_user
\* returns one by one are the users the unscoped list_users returns.
C27_LookupEqualsListing ==
    LookupAfterListing =>
        ( UserReq.res.status = 200
          <=> UserReq.args.user_id \in Listed(UserReq.listed) )

\* C27 as amended: every listed user can be fetched; the two sets are equal
\* when the caller has no admin_orgs or no managed_teams; a caller with
\* both can fetch, beyond the listing, only users under the managed teams.
C27_ListingWithinLookup ==
    LookupAfterListing =>
        LET groups == UserReq.args.groups
            target == UserReq.args.user_id
            fetched == UserReq.res.status = 200
            listed == target \in Listed(UserReq.listed)
        IN  /\ listed => fetched
            /\ ( \/ parse_admin_orgs(groups) = {}
                 \/ parse_managed_teams(groups) = {} )
               => (fetched <=> listed)
            /\ (fetched /\ ~ listed) =>
                  target \in UNION { MembersUnder(Path2(ot[1], ot[2]), NoFails) :
                                       ot \in parse_managed_teams(groups) }

\* C27 witness: the admin of beta who manages acme/pay listed eve only, and
\* then fetched bob, a member of acme/pay.
C27_Witness ==
    /\ LookupAfterListing
    /\ UserReq.args.groups = BetaAdminPayManager
    /\ UserReq.args.user_id = "u-bob"
    /\ kcMembers = { <<"u-bob", 6>>, <<"u-eve", 9>>, <<"u-dan", 10>> }
    /\ Listed(UserReq.listed) = { "u-eve" }
    /\ UserReq.res.status = 200

---------------------------------------------------------------------------
(* Creating users (SpecUsers) *)

\* The orgs a payload asks for, trimmed and lowercased; a None entry asks
\* for no org.
RequestedOrgs(payload) ==
    { NormalParam(payload.orgs[i]) : i \in { j \in DOMAIN payload.orgs : payload.orgs[j] # None } }

\* The caller administers an org, and every org asked for is one of them.
MayCreate(payload, groups) ==
    /\ parse_admin_orgs(groups) # {}
    /\ payload.has_orgs => RequestedOrgs(payload) \subseteq parse_admin_orgs(groups)

\* C24: create_user by a caller who is not super-admin succeeds only if the
\* caller administers an org and every requested org is among the caller's
\* admin_orgs; otherwise it answers 403 before any call to the provider, so
\* no user is created.
C24_CreateUserNeedsOrgAdmin ==
    (Finished("create_user") /\ ~ IsSuperAdmin(UserReq.args.groups)) =>
        /\ UserReq.res.status = 201 =>
              MayCreate(UserReq.args.payload, UserReq.args.groups)
        /\ ~ MayCreate(UserReq.args.payload, UserReq.args.groups) =>
              /\ UserReq.res.status = 403
              /\ UserReq.calls = 0

\* C24 witness: the admin of acme asked for a user in acme and beta and was
\* refused; the provider has no new user.
C24_Witness ==
    /\ Finished("create_user")
    /\ UserReq.args.groups = AcmeAdmin
    /\ UserReq.args.payload.orgs = << s_acme, s_beta >>
    /\ UserReq.res.status = 403
    /\ kcUsers = RealmUsers

\* C29: every user created by a caller who is not super-admin is afterwards a
\* member of /org/user for an org the creator administers, and so within
\* the reach of the creator's get_user.
C29_CreatedUserInCreatorScope ==
    ( /\ Finished("create_user")
      /\ ~ IsSuperAdmin(UserReq.args.groups)
      /\ UserReq.res.status = 201 )
    => /\ \E org \in parse_admin_orgs(UserReq.args.groups) :
             \E g \in kcGroups :
                /\ KcPath(kcGroups, g.id) = Path2(org, s_user)
                /\ <<UserReq.res.id, g.id>> \in kcMembers
       /\ Reachable(UserReq.res.id, UserReq.args.groups)

---------------------------------------------------------------------------
(* SpecToken: bob logs in, refreshes, logs out and calls gated endpoints
   while an administrator binds and unbinds bob's roles.  cookies are the
   cookies of bob's user agent. *)

TokenUser == "u-bob"

TokOrgBind == [ groups : { SuperAdmin }, org_name : { s_acme }, username : { s_bob } ]
TokTeamBind ==
    [ groups : { SuperAdmin }, org_name : { s_acme }, team_name : { s_pay },
      username : { s_bob } ]

\* The gated endpoints bob calls.
TokenGates ==
    { [gate |-> "OrgAdminChecker", org_name |-> s_acme, team_name |-> None],
      [gate |-> "TeamManagerChecker", org_name |-> s_acme, team_name |-> s_pay] }

\* keycloak_openid.token(email, password) / refresh_token(...): the provider
\* issues a token whose groups claim lists the user's group paths of that
\* moment; jwt.decode accepts it until it expires.
IssuedToken ==
    [ present |-> TRUE, decodable |-> TRUE,
      groups |-> kc_get_user_groups(kcGroups, kcMembers, TokenUser) ]

\* POST /auth/login: AuthService.login; KeycloakError -> 401, no cookie set
Login ==
    /\ \E kcError \in BOOLEAN :
          IF kcError
          THEN /\ out' = [fn |-> "login",
                          res |-> HTTPException(401, <<"Invalid Credentials">>)]
               /\ UNCHANGED cookies
          ELSE /\ out' = [fn |-> "login",
                          res |-> [status |-> 200, detail |-> <<"Login successful">>]]
               /\ cookies' = [access_token |-> IssuedToken, refresh_token |-> TRUE]
    /\ UNCHANGED <<sysVars, inGroups, inOrg, inTeam, inName>>

\* POST /auth/refresh: 401 without the refresh_token cookie;
\* AuthService.refresh_token; KeycloakError -> 400, no cookie set
RefreshToken ==
    /\ IF ~ cookies.refresh_token
       THEN /\ out' = [fn |-> "refresh_token",
                       res |-> HTTPException(401, <<"Refresh token not found in cookies">>)]
            /\ UNCHANGED cookies
       ELSE \E kcError \in BOOLEAN :
               IF kcError
               THEN /\ out' = [fn |-> "refresh_token",
                               res |-> HTTPException(400, <<"Invalid Refresh Token">>)]
                    /\ UNCHANGED cookies
               ELSE /\ out' = [fn |-> "refresh_token",
                               res |-> [status |-> 200,
                                        detail |-> <<"Token refreshed successfully">>]]
                    /\ cookies' = [cookies EXCEPT !.access_token = IssuedToken]
    /\ UNCHANGED <<sysVars, inGroups, inOrg, inTeam, inName>>

\* POST /auth/logout: both cookies are deleted, whatever AuthService.logout does
Logout ==
    /\ out' = [fn |-> "logout",
               res |-> [status |-> 200, detail |-> <<"Logged out successfully">>]]
    /\ cookies' = NoCookies
    /\ UNCHANGED <<sysVars, inGroups, inOrg, inTeam, inName>>

\* The lifetime of the access token ends: jwt.decode (verify_exp) raises on
\* it from now on.
AccessTokenExpires ==
    /\ cookies.access_token.present
    /\ cookies.access_token.decodable
    /\ cookies' = [cookies EXCEPT !.access_token.decodable = FALSE]
    /\ UNCHANGED <<sysVars, pureVars>>

\* get_current_user(request): the claims of the token in the access_token
\* cookie.  kcError: keycloak_openid.public_key() raises; like a jwt.decode
\* that raises, it ends in the 401 of the except clause.
get_current_user(request_cookies, kcError) ==
    LET token == request_cookies.access_token
    IN  IF ~ token.present THEN HTTPException(401, <<"Not authenticated">>)
        ELSE IF kcError \/ ~ token.decodable
        THEN HTTPException(401, <<"Invalid authentication credentials">>)
        ELSE Ok([sub |-> TokenUser, groups |-> token.groups])

\* A request of bob's to an endpoint behind OrgAdminChecker or
\* TeamManagerChecker: the gate decides on the claims get_current_user returns.
GatedRequest ==
    /\ \E g \in TokenGates, kcError \in BOOLEAN :
          LET user == get_current_user(cookies, kcError)
          IN  out' = [fn |-> "gated_request", gate |-> g.gate, org_name |-> g.org_name,
                      team_name |-> g.team_name, seq |-> nReq,
                      res |-> IF user.status # 200 THEN user
                              ELSE IF g.gate = "OrgAdminChecker"
                              THEN OrgAdminChecker(g.org_name, user.value.groups)
                              ELSE TeamManagerChecker(g.org_name, g.team_name,
                                                      user.value.groups)]
    /\ UNCHANGED <<sysVars, inGroups, inOrg, inTeam, inName, cookies>>

InitToken ==
    /\ IdleSys
    /\ SeededRealm

NextToken ==
    \/ Login
    \/ RefreshToken
    \/ Logout
    \/ AccessTokenExpires
    \/ GatedRequest
    \/ AddOrgAdmin_Begin(Client, TokOrgBind)
    \/ AddOrgAdmin_Lookup(Client)
    \/ AddOrgAdmin_Resolve(Client)
    \/ AddOrgAdmin_Apply(Client)
    \/ RemoveOrgAdmin_Begin(Client, TokOrgBind)
    \/ RemoveOrgAdmin_Lookup(Client)
    \/ RemoveOrgAdmin_Resolve(Client)
    \/ RemoveOrgAdmin_Apply(Client)
    \/ AddTeamManager_Begin(Client, TokTeamBind)
    \/ AddTeamManager_Lookup(Client)
    \/ AddTeamManager_Resolve(Client)
    \/ AddTeamManager_Apply(Client)
    \/ RemoveTeamManager_Begin(Client, TokTeamBind)
    \/ RemoveTeamManager_Lookup(Client)
    \/ RemoveTeamManager_Resolve(Client)
    \/ RemoveTeamManager_Apply(Client)

SpecToken == InitToken /\ [][NextToken]_vars

\* The administrator's last request removed bob from a role group and
\* succeeded, and no later binding request has begun.
RevokedRole ==
    LET r == req[Client]
    IN  /\ r.op \in { "remove_org_admin", "remove_team_manager" }
        /\ r.pc = "done"
        /\ r.res.status = 200
        /\ r.loc.user_id = TokenUser

\* The gated request o needs the authority the last request revoked.
NeedsRevoked(o) ==
    LET r == req[Client]
    IN  /\ NormalParam(o.org_name) = r.loc.org_name
        /\ \/ r.op = "remove_org_admin" /\ o.gate = "OrgAdminChecker"
           \/ /\ r.op = "remove_team_manager"
              /\ o.gate = "TeamManagerChecker"
              /\ NormalParam(o.team_name) = r.loc.team_name

\* What bob's memberships at the provider grant at this moment.
GrantedNow(o) ==
    LET now == kc_get_user_groups(kcGroups, kcMembers, TokenUser)
    IN  IF o.gate = "OrgAdminChecker"
        THEN OrgAdminPredicate(o.org_name, now)
        ELSE \/ OrgAdminPredicate(o.org_name, now)
             \/ <<NormalParam(o.org_name), NormalParam(o.team_name)>>
                   \in parse_managed_teams(now)

\* C26: once remove_org_admin or remove_team_manager for a user has completed
\* successfully, every later request of that user that needs the removed
\* authority is denied, unless the user holds the authority at the provider
\* again (re-bound, super-admin); the decision never rests on a groups claim
\* that predates the removal.
C26_RevocationTakesEffect ==
    [][ ( /\ RevokedRole
          /\ out' # out
          /\ out'.fn = "gated_request"
          /\ NeedsRevoked(out')
          /\ out'.res.status = 200 )
        => GrantedNow(out') ]_vars

===========================================================================
